---- MODULE Spec2Model ----
(***************************************************************************)
(* Gearset optimization engine of the Walkscape gearset optimizer:         *)
(* constraint validation (UUID uniqueness, tool-keyword exclusivity,       *)
(* activity requirements), the three greedy + local-search optimizers and  *)
(* the memoized stat query of StatsMixin; further the travel graph and     *)
(* tour search, the thread-local character globals, the gear-set and       *)
(* configuration tables of the database, the gearset metrics, the two      *)
(* gearset validators and the multi-level score comparison.                *)
(***************************************************************************)
EXTENDS Integers, Sequences, FiniteSets, TLC

VARIABLES
    character,              \* Character: gear, inventory, bank, skill level, reputation, AP
    activity,               \* the Activity optimized for (its requirements)
    alg,                    \* the optimizer that runs: "for_activity", "complete", "generic"
    pc,                     \* position of the run: "greedy", "fix", "local", "return", ...
    slot_idx,               \* index of the next slot the greedy phase fills
    gearset,                \* slot -> item or None: the gearset dict built or validated
    current_keyword_counts, \* optimize_for_activity: required keyword -> picked items carrying it
    needed_keywords,        \* optimize_for_activity: needed_keywords of the last filled slot
    best_item,              \* the item the last greedy step put in its slot
    current_value,          \* primary metric of the current gearset, as the local search holds it
    best_swap,              \* <<slot, old item, new item>> of the last applied swap, <<>> if none
    iteration,              \* the round counter of the local search (-1: the name is not bound)
    improved,               \* whether the last round accepted a swap
    max_iterations,         \* the caller's limit on local-search rounds
    sorting_priority,       \* the primary, secondary and tertiary Sorting of the caller
    tool_slots,             \* character.get_tool_slots()
    result,                 \* the value the last operation returned
    STATS_CACHE,            \* stats_mixin._STATS_CACHE: cache key -> memoized result
    query,                  \* the arguments of the last call
    edges,                  \* Graph.edges: node -> node -> the edge's steps and gear
    thread_locals,          \* walkscape_globals._thread_locals: thread -> attributes set
    sessions,               \* the sessions table: uuid -> character_config and ui_config
    gear_sets               \* the gear_sets table: id -> session_uuid, name, slots_json

vars == <<character, activity, alg, pc, slot_idx, gearset, current_keyword_counts,
          needed_keywords, best_item, current_value, best_swap, iteration, improved,
          max_iterations, sorting_priority, tool_slots, result, STATS_CACHE, query,
          edges, thread_locals, sessions, gear_sets>>

None == "None"

-----------------------------------------------------------------------------
(* Bounds of the model *)

MaxQty == 2            \* largest quantity of one item instance in the inventory
MaxIter == 2           \* largest max_iterations tried
MaxToolSlots == 2      \* largest number of tool slots of the character

-----------------------------------------------------------------------------
(* Reference data: the equipment catalogue *)

GearSlots == <<"head", "cape", "back", "chest", "primary", "secondary",
               "hands", "legs", "neck", "feet", "ring1", "ring2">>

GenericGearSlots == <<"head", "cape", "neck", "chest", "hands", "legs", "feet",
                      "ring1", "ring2", "back", "primary", "secondary">>

ToolSlotNames == <<"tool0", "tool1", "tool2", "tool3", "tool4", "tool5">>

Range(s) == {s[i] : i \in 1..Len(s)}

AllSlots == Range(GearSlots) \cup Range(ToolSlotNames)

IsRingSlot(slot) == slot \in {"ring1", "ring2"}

IsToolSlot(slot) == slot \in Range(ToolSlotNames)

\* the item.slot a gearset slot takes
ItemSlotOf(slot) ==
    IF IsRingSlot(slot) THEN "ring" ELSE IF IsToolSlot(slot) THEN "tools" ELSE slot

\* ItemInstance objects of the catalogue. Two quality tiers of one CraftedItem are two
\* objects with one uuid (R1N, R1G); w is what the item adds to the three ranked metrics.
ItemData ==
    [ H1  |-> [uuid |-> "h1", slot |-> "head",      base |-> "H1", quality |-> 0, level |-> 0,
               keywords |-> <<>>,                       w |-> <<2, 1, 0>>],
      H2  |-> [uuid |-> "h2", slot |-> "head",      base |-> "H2", quality |-> 0, level |-> 0,
               keywords |-> <<"Diving Gear">>,          w |-> <<2, 2, 1>>],
      CP  |-> [uuid |-> "cp", slot |-> "cape",      base |-> "CP", quality |-> 0, level |-> 0,
               keywords |-> <<>>,                       w |-> <<1, 0, 0>>],
      BK  |-> [uuid |-> "bk", slot |-> "back",      base |-> "BK", quality |-> 0, level |-> 0,
               keywords |-> <<>>,                       w |-> <<4, 0, 0>>],
      CH  |-> [uuid |-> "ch", slot |-> "chest",     base |-> "CH", quality |-> 0, level |-> 0,
               keywords |-> <<"Advanced Diving Gear">>, w |-> <<1, 1, 0>>],
      PR  |-> [uuid |-> "pr", slot |-> "primary",   base |-> "PR", quality |-> 0, level |-> 0,
               keywords |-> <<>>,                       w |-> <<0, 2, 0>>],
      SE  |-> [uuid |-> "se", slot |-> "secondary", base |-> "SE", quality |-> 0, level |-> 0,
               keywords |-> <<>>,                       w |-> <<-1, 0, 0>>],
      HA  |-> [uuid |-> "ha", slot |-> "hands",     base |-> "HA", quality |-> 0, level |-> 0,
               keywords |-> <<>>,                       w |-> <<1, 0, 1>>],
      LE  |-> [uuid |-> "le", slot |-> "legs",      base |-> "LE", quality |-> 0, level |-> 0,
               keywords |-> <<>>,                       w |-> <<2, 0, 0>>],
      NE  |-> [uuid |-> "ne", slot |-> "neck",      base |-> "NE", quality |-> 0, level |-> 0,
               keywords |-> <<>>,                       w |-> <<3, 0, 0>>],
      FE  |-> [uuid |-> "fe", slot |-> "feet",      base |-> "FE", quality |-> 0, level |-> 0,
               keywords |-> <<>>,                       w |-> <<1, 1, 1>>],
      R1N |-> [uuid |-> "r1", slot |-> "ring",      base |-> "R1", quality |-> 1, level |-> 0,
               keywords |-> <<>>,                       w |-> <<1, 0, 0>>],
      R1G |-> [uuid |-> "r1", slot |-> "ring",      base |-> "R1", quality |-> 2, level |-> 0,
               keywords |-> <<>>,                       w |-> <<3, 0, 1>>],
      R2  |-> [uuid |-> "r2", slot |-> "ring",      base |-> "R2", quality |-> 0, level |-> 0,
               keywords |-> <<"Diving Gear">>,          w |-> <<2, 1, 1>>],
      T1  |-> [uuid |-> "t1", slot |-> "tools",     base |-> "T1", quality |-> 0, level |-> 0,
               keywords |-> <<"Pickaxe", "Tool">>,      w |-> <<3, 1, 0>>],
      T2  |-> [uuid |-> "t2", slot |-> "tools",     base |-> "T2", quality |-> 0, level |-> 0,
               keywords |-> <<"tool", "pickaxe">>,      w |-> <<2, 0, 2>>],
      T3  |-> [uuid |-> "t3", slot |-> "tools",     base |-> "T3", quality |-> 0, level |-> 0,
               keywords |-> <<"Fishing Net", "Tool">>,  w |-> <<1, 3, 1>>],
      T4  |-> [uuid |-> "t4", slot |-> "tools",     base |-> "T4", quality |-> 0, level |-> 9,
               keywords |-> <<"Light Source">>,         w |-> <<5, 5, 5>>],
      T5  |-> [uuid |-> "t5", slot |-> "tools",     base |-> "T5", quality |-> 0, level |-> 0,
               keywords |-> <<"Fishing Net", "fishing net">>, w |-> <<0, 0, 0>>] ]

Items == DOMAIN ItemData

\* the one-per-slot gear of the catalogue, owned together or not at all
Fillers == {"CP", "BK", "CH", "PR", "SE", "HA", "LE", "NE", "FE"}

\* iteration order of the character.items dict
ItemOrder ==
    <<"H1", "H2", "CP", "BK", "CH", "PR", "SE", "HA", "LE", "NE", "FE",
      "R1N", "R1G", "R2", "T1", "T2", "T3", "T4", "T5">>

Uuids == {ItemData[i].uuid : i \in Items}

ItemUuid(item) == ItemData[item].uuid

ItemSlot(item) == ItemData[item].slot

ItemKeywords(item) == ItemData[item].keywords

\* str.lower() on the keywords and region tags of the catalogue
Lower(kw) ==
    CASE kw = "Pickaxe" -> "pickaxe"
      [] kw = "Tool" -> "tool"
      [] kw = "Diving Gear" -> "diving gear"
      [] kw = "Advanced Diving Gear" -> "advanced diving gear"
      [] kw = "Fishing Net" -> "fishing net"
      [] kw = "Light Source" -> "light source"
      [] kw = "Jarvonia" -> "jarvonia"
      [] kw = "GDTE" -> "gdte"
      [] kw = "Syrenthia" -> "syrenthia"
      [] kw = "Adventurer" -> "adventurer"
      [] OTHER -> kw

\* Python's `a in b` on two lower-cased keywords of the catalogue (substring test)
IsSubstring(a, b) == a = b \/ (a = "diving gear" /\ b = "advanced diving gear")

excluded_keywords ==
    {"regional", "tool", "light source", "achievement reward", "faction reward", "activity tool"}

-----------------------------------------------------------------------------
(* Character *)

RECURSIVE SumOver(_, _)
SumOver(S, f) ==
    IF S = {} THEN 0
    ELSE LET x == CHOOSE y \in S : TRUE IN f[x] + SumOver(S \ {x}, f)

\* Character.items with the bank left out of the sum
CharacterItemsNoBank(c) ==
    [i \in Items |-> c.gear[i] + c.inventory[i]]

\* Character.items: 1 per gear slot holding the item, plus inventory, plus bank
CharacterItems(c) ==
    [i \in Items |-> c.gear[i] + c.inventory[i] + c.bank[i]]

\* character._uuid_cache: uuid -> quantity summed over every owned object with that uuid
UuidCache(c) ==
    [u \in Uuids |-> SumOver({i \in Items : ItemUuid(i) = u}, CharacterItems(c))]

\* StatsMixin.is_unlocked(character, ignore_gear_requirements=True) for a skill requirement
ItemIsUnlocked(item, c) == c.skill_level >= ItemData[item].level

-----------------------------------------------------------------------------
(* Constraint validation *)

\* the inner loop of validate_tool_keywords over one tool's keyword list
RECURSIVE KeywordScan(_, _, _)
KeywordScan(kws, j, seen) ==
    IF j > Len(kws) THEN [ok |-> TRUE, seen |-> seen]
    ELSE LET keyword_lower == Lower(kws[j]) IN
         IF keyword_lower \in excluded_keywords THEN KeywordScan(kws, j + 1, seen)
         ELSE IF keyword_lower \in seen THEN [ok |-> FALSE, seen |-> seen]
         ELSE KeywordScan(kws, j + 1, seen \cup {keyword_lower})

RECURSIVE ToolScan(_, _, _)
ToolScan(tools, i, seen) ==
    IF i > Len(tools) THEN TRUE
    ELSE IF tools[i] = None THEN ToolScan(tools, i + 1, seen)
    ELSE LET r == KeywordScan(ItemKeywords(tools[i]), 1, seen) IN
         IF ~r.ok THEN FALSE ELSE ToolScan(tools, i + 1, r.seen)

\* validate_tool_keywords with seen_keywords reset for every tool: only neighbours conflict
validate_tool_keywords_neighbours(tools) ==
    \A i \in 1..Len(tools) :
        tools[i] = None
        \/ KeywordScan(ItemKeywords(tools[i]), 1,
                       IF i > 1 /\ tools[i - 1] # None
                       THEN KeywordScan(ItemKeywords(tools[i - 1]), 1, {}).seen
                       ELSE {}).ok

validate_tool_keywords(tools) == ToolScan(tools, 1, {})

\* uuid_counts and uuid_to_item of validate_uuid_uniqueness
UuidCount(items, u) ==
    Cardinality({i \in 1..Len(items) : items[i] # None /\ ItemUuid(items[i]) = u})

UuidToItem(items, u) ==
    LET idx == {i \in 1..Len(items) : items[i] # None /\ ItemUuid(items[i]) = u}
        last == CHOOSE i \in idx : \A k \in idx : k <= i
    IN items[last]

validate_uuid_uniqueness(items, c) ==
    \A u \in {ItemUuid(items[i]) : i \in {k \in 1..Len(items) : items[k] # None}} :
        LET count_used == UuidCount(items, u)
            owned_qty == UuidCache(c)[u]
            item == UuidToItem(items, u)
        IN IF ItemSlot(item) = "tools" THEN count_used <= 1
           ELSE IF ItemSlot(item) = "ring" THEN count_used <= owned_qty
           ELSE count_used <= 1

\* activity=None
NoActivity == [none |-> TRUE]

\* the dict order of a gearset built slot by slot, for a character with n tool slots
SlotOrder(gear_slots, n) == gear_slots \o SubSeq(ToolSlotNames, 1, n)

\* list(gearset_dict.values())
Values(g, order) == [i \in 1..Len(order) |-> g[order[i]]]

\* is_gearset_complete: every gear slot and every tool slot of the character holds an item
is_gearset_complete(g, n) ==
    /\ \A i \in 1..Len(GearSlots) : g[GearSlots[i]] # None
    /\ \A i \in 1..n : g[ToolSlotNames[i]] # None

\* the keyword_counts loop of ActivityInfo.is_unlocked: exact, case-insensitive match
GearsetKeywordCount(g, keyword) ==
    Cardinality({sl \in AllSlots :
        /\ g[sl] # None
        /\ \E k \in 1..Len(ItemKeywords(g[sl])) : Lower(keyword) = Lower(ItemKeywords(g[sl])[k])})

\* ActivityInfo.is_unlocked(gearset=..., character=...)
ActivityIsUnlocked(a, g, c) ==
    /\ c.skill_level >= a.skill_req
    /\ c.reputation >= a.reputation_req
    /\ (a.achievement_points > 0 => c.achievement_points >= a.achievement_points)
    /\ \A keyword \in DOMAIN a.keyword_counts :
          a.keyword_counts[keyword] <= 0
          \/ GearsetKeywordCount(g, keyword) >= a.keyword_counts[keyword]

\* meets_activity_requirements: the same checks, the keyword matched as a substring
meets_activity_requirements(g, a, c) ==
    /\ c.skill_level >= a.skill_req
    /\ c.reputation >= a.reputation_req
    /\ (a.achievement_points > 0 => c.achievement_points >= a.achievement_points)
    /\ \A keyword \in DOMAIN a.keyword_counts :
          a.keyword_counts[keyword] <= 0
          \/ Cardinality({sl \in AllSlots :
                 /\ g[sl] # None
                 /\ \E k \in 1..Len(ItemKeywords(g[sl])) :
                       IsSubstring(Lower(keyword), Lower(ItemKeywords(g[sl])[k]))})
               >= a.keyword_counts[keyword]

\* total_owned of is_gearset_valid: summed over every owned object with the uuid
TotalOwned(c, uuid) == SumOver({i \in Items : ItemUuid(i) = uuid}, CharacterItems(c))

\* the loop of activity_optimizer.is_gearset_valid over gearset_dict.items()
RECURSIVE ValidLoop(_, _, _, _, _, _)
ValidLoop(g, order, i, used_uuids, used_keywords, c) ==
    IF i > Len(order) THEN TRUE
    ELSE LET slot == order[i]
             item == g[slot]
         IN IF item = None THEN ValidLoop(g, order, i + 1, used_uuids, used_keywords, c)
            ELSE LET uuid == ItemUuid(item)
                     used == [used_uuids EXCEPT ![uuid] = @ + 1]
                     item_keywords == {Lower(ItemKeywords(item)[k]) :
                                          k \in 1..Len(ItemKeywords(item))} \ excluded_keywords
                 IN IF IsRingSlot(slot) /\ used[uuid] > TotalOwned(c, uuid) THEN FALSE
                    ELSE IF ~IsRingSlot(slot) /\ used[uuid] > 1 THEN FALSE
                    ELSE IF IsToolSlot(slot)
                         THEN IF item_keywords \cap used_keywords # {} THEN FALSE
                              ELSE ValidLoop(g, order, i + 1, used,
                                             used_keywords \cup item_keywords, c)
                         ELSE ValidLoop(g, order, i + 1, used, used_keywords, c)

\* activity_optimizer.is_gearset_valid(gearset_dict, character, activity, check_requirements);
\* a is NoActivity when the caller passes activity=None
is_gearset_valid(g, order, c, a, check_requirements, n) ==
    /\ ValidLoop(g, order, 1, [u \in Uuids |-> 0], {}, c)
    /\ (a # NoActivity /\ check_requirements /\ is_gearset_complete(g, n))
          => ActivityIsUnlocked(a, g, c)

-----------------------------------------------------------------------------
(* Activities and characters the model draws from *)

NoKeywords == [kw \in {} |-> 0]

Activities ==
    { [base_steps |-> 12, base_xp |-> 4, skill_req |-> 1, reputation_req |-> 0,
       achievement_points |-> 0, keyword_counts |-> NoKeywords],
      [base_steps |-> 14, base_xp |-> 6, skill_req |-> 2, reputation_req |-> 1,
       achievement_points |-> 1, keyword_counts |-> [kw \in {"diving gear"} |-> 1]],
      [base_steps |-> 12, base_xp |-> 4, skill_req |-> 0, reputation_req |-> 0,
       achievement_points |-> 0, keyword_counts |-> [kw \in {"diving gear"} |-> 2]] }

NoItems == [i \in Items |-> 0]

EmptyGearset == [sl \in AllSlots |-> None]

-----------------------------------------------------------------------------
(* StatsMixin: the memoized stat query *)

MaxCached == 2         \* largest number of entries the cache grows to

\* the stat value the catalogue gives threshold t of a gate
ThresholdValue(t) == <<4, 2, 1, 2, 4>>[t]

\* the location keys of the stat tables of the LOC source, and the stat each one holds
LocationKeys == <<"global", "underwater", "!underwater", "Jarvonia", "!Jarvonia", "gdte">>

LocationStat ==
    <<"work_efficiency", "steps_add", "chest_finding", "double_rewards", "double_action",
      "find_gems">>

\* self._stats and self.gated_stats of the stat sources, flattened to entries: the gate
\* (none for _stats), its key and threshold, the skill and location key, and the stats
StatsData ==
    [ ROD |-> << [gate |-> "none", key |-> None, threshold |-> 0, skill |-> "fishing",
                  location_key |-> "global",
                  stats |-> [n \in {"work_efficiency"} |-> 10]],
                 [gate |-> "none", key |-> None, threshold |-> 0, skill |-> "fishing",
                  location_key |-> "underwater",
                  stats |-> [n \in {"steps_add"} |-> 0 - 1]],
                 [gate |-> "none", key |-> None, threshold |-> 0, skill |-> "mining",
                  location_key |-> "global",
                  stats |-> [n \in {"work_efficiency"} |-> 7]],
                 [gate |-> "skill_level", key |-> "fishing", threshold |-> 2,
                  skill |-> "fishing", location_key |-> "global",
                  stats |-> [n \in {"work_efficiency"} |-> 5]],
                 [gate |-> "activity", key |-> "diving", threshold |-> 0,
                  skill |-> "fishing", location_key |-> "global",
                  stats |-> [n \in {"steps_add"} |-> 0 - 2]],
                 [gate |-> "reputation", key |-> "jarvonia", threshold |-> 1,
                  skill |-> "global", location_key |-> "!underwater",
                  stats |-> [n \in {"work_efficiency"} |-> 2]],
                 [gate |-> "set_pieces", key |-> "adventurer", threshold |-> 2,
                  skill |-> "fishing", location_key |-> "global",
                  stats |-> [n \in {"work_efficiency"} |-> 3]],
                 [gate |-> "item_ownership", key |-> "H2", threshold |-> 0,
                  skill |-> "fishing", location_key |-> "global",
                  stats |-> [n \in {"steps_add"} |-> 0 - 3]] >>,
      HAT |-> << [gate |-> "none", key |-> None, threshold |-> 0, skill |-> "global",
                  location_key |-> "global",
                  stats |-> [n \in {"work_efficiency", "luck"} |->
                                IF n = "work_efficiency" THEN 4 ELSE 3]],
                 [gate |-> "none", key |-> None, threshold |-> 0, skill |-> "fishing",
                  location_key |-> "underwater",
                  stats |-> [n \in {"steps_add"} |-> 1]] >>,
      LOC |-> [k \in 1..Len(LocationKeys) |->
                 [gate |-> "none", key |-> None, threshold |-> 0, skill |-> "fishing",
                  location_key |-> LocationKeys[k],
                  stats |-> [n \in {LocationStat[k]} |-> 1]]],
      SET |-> << [gate |-> "none", key |-> None, threshold |-> 0, skill |-> "fishing",
                  location_key |-> "global",
                  stats |-> [n \in {"work_efficiency"} |-> 1]] >>
              \o [t \in 1..3 |->
                    [gate |-> "skill_level", key |-> "fishing", threshold |-> t,
                     skill |-> "fishing", location_key |-> "global",
                     stats |-> [n \in {"work_efficiency"} |-> 2 * ThresholdValue(t)]]]
              \o [t \in 1..2 |->
                    [gate |-> "reputation", key |-> "jarvonia", threshold |-> t,
                     skill |-> "fishing", location_key |-> "global",
                     stats |-> [n \in {"chest_finding"} |-> ThresholdValue(t)]]]
              \o [t \in 1..5 |->
                    [gate |-> "set_pieces", key |-> "adventurer", threshold |-> t,
                     skill |-> "fishing", location_key |-> "global",
                     stats |-> [n \in {"double_rewards"} |-> ThresholdValue(t)]]] ]

StatSources == DOMAIN StatsData

\* SkillInstance.matches_skill: the skill itself, or stats stored under global
matches_skill(skill, stats_skill) == stats_skill = skill \/ stats_skill = "global"

\* LocationInfo.regions of the locations of the catalogue: every region tag of a location
LocationRegions ==
    [ Kallaheim |-> <<"Jarvonia", "GDTE">>,
      Vastalume |-> <<"underwater", "Syrenthia">>,
      Wilds |-> <<>> ]

Locations == DOMAIN LocationRegions

\* LocationInfo.is_in_region: region.lower() in [r.lower() for r in self.regions]
is_in_region(location, region) ==
    \E k \in 1..Len(LocationRegions[location]) :
        Lower(region) = Lower(LocationRegions[location][k])

\* location_key.startswith("!") and location_key[1:], on the keys of the catalogue
IsNegated(location_key) == location_key \in {"!underwater", "!Jarvonia"}

LocationName(location_key) ==
    CASE location_key = "!underwater" -> "underwater"
      [] location_key = "!Jarvonia" -> "Jarvonia"
      [] OTHER -> location_key

\* _location_matches with every key of the catalogue taken for a region tag to look up
location_matches_unnegated(location_key, current_location) ==
    IF location_key = "global" THEN TRUE
    ELSE IF current_location = None THEN FALSE
    ELSE is_in_region(current_location, Lower(LocationName(location_key)))

\* _location_matches
location_matches(location_key, current_location) ==
    IF location_key = "global" THEN TRUE
    ELSE IF current_location = None THEN FALSE
    ELSE LET is_negated == IsNegated(location_key)
             location_name == LocationName(location_key)
             matches == is_in_region(current_location, Lower(location_name))
         IN IF is_negated THEN ~matches ELSE matches

\* combined[stat_name] = combined.get(stat_name, 0.0) + stat_value, for a stats dict
AddStats(combined, stats) ==
    [n \in DOMAIN combined \cup DOMAIN stats |->
        (IF n \in DOMAIN combined THEN combined[n] ELSE 0)
            + (IF n \in DOMAIN stats THEN stats[n] ELSE 0)]

\* a gate that opens at its threshold only: of the thresholds met, just the highest counts
GateOpenAtThresholdOnly(e, activity_name, set_piece_counts, c) ==
    CASE e.gate = "none" -> TRUE
      [] e.gate = "skill_level" -> c.skill_level = e.threshold
      [] e.gate = "activity" -> activity_name # None /\ activity_name = e.key
      [] e.gate = "reputation" -> c.reputation = e.threshold
      [] e.gate = "set_pieces" ->
            /\ e.key \in DOMAIN set_piece_counts
            /\ set_piece_counts[e.key] = e.threshold
      [] e.gate = "item_ownership" -> c.gear[e.key] + c.inventory[e.key] + c.bank[e.key] > 0

\* whether _add_gated_stats finds the gate of an entry open
GateOpen(e, activity_name, set_piece_counts, c) ==
    CASE e.gate = "none" -> TRUE
      [] e.gate = "skill_level" -> c.skill_level >= e.threshold
      [] e.gate = "activity" -> activity_name # None /\ activity_name = e.key
      [] e.gate = "reputation" -> c.reputation >= e.threshold
      [] e.gate = "set_pieces" ->
            /\ e.key \in DOMAIN set_piece_counts
            /\ set_piece_counts[e.key] >= e.threshold
      [] e.gate = "item_ownership" -> CharacterItems(c)[e.key] > 0

\* the attributes of the Attribute catalogue whose AttributeInfo has is_percentage=True
PercentageAttributes ==
    {"bonus_xp_percent", "chest_finding", "double_action", "double_rewards",
     "find_bird_nests", "find_collectibles", "find_gems", "fine_material_finding",
     "item_finding", "no_materials_consumed", "steps_percent", "work_efficiency"}

\* hasattr(Attribute, attribute_upper) and attribute_obj.is_percentage
IsPercentage(attribute_name) == attribute_name \in PercentageAttributes

\* _convert_percentages: value / 100.0 for a percentage; values are held in hundredths
convert_percentages(stats) ==
    [n \in DOMAIN stats |-> IF IsPercentage(n) THEN stats[n] ELSE 100 * stats[n]]

\* the loops of _calculate_stats_uncached and _add_gated_stats over the entries
RECURSIVE CombineEntries(_, _, _, _, _, _, _, _)
CombineEntries(entries, i, combined, skill, location, activity_name, set_piece_counts, c) ==
    IF i > Len(entries) THEN combined
    ELSE CombineEntries(entries, i + 1,
             IF /\ matches_skill(skill, entries[i].skill)
                /\ location_matches(entries[i].location_key, location)
                /\ GateOpen(entries[i], activity_name, set_piece_counts, c)
             THEN AddStats(combined, entries[i].stats)
             ELSE combined,
             skill, location, activity_name, set_piece_counts, c)

\* _calculate_stats_uncached for a named skill
calculate_stats_uncached(self, skill, location, activity_name, set_piece_counts, c) ==
    convert_percentages(
        CombineEntries(StatsData[self], 1, NoKeywords, skill, location, activity_name,
                       set_piece_counts, c))

\* the names hasattr(Skill, skill.upper()) finds
KnownSkills == {"fishing", "mining"}

\* a lookup that finds a Skill under every name
HasSkillAlways(skill) == TRUE

\* hasattr(Skill, skill_upper)
HasSkill(skill) == skill \in KnownSkills

\* character=None
NoCharacter == [none |-> TRUE]

\* what `from my_config import get_character` meets: no my_config module, the module as
\* shipped with CHARACTER_EXPORT not filled in, or a module holding an export
MyConfigs == {"missing", "unfilled", "filled"}

\* the character get_character() loads from a filled-in my_config
ConfigCharacter ==
    [gear |-> NoItems, inventory |-> [NoItems EXCEPT !["H1"] = 1],
     bank |-> NoItems, skill_level |-> 2, reputation |-> 1, achievement_points |-> 0]

\* whether the source has gated_stats
HasGatedStats(self) == \E i \in 1..Len(StatsData[self]) : StatsData[self][i].gate # "none"

\* the entries of self._stats
UngatedEntries(self) == SelectSeq(StatsData[self], LAMBDA e : e.gate = "none")

\* the `if not skill` branch of _calculate_stats_uncached: every stat of self._stats summed
RECURSIVE CombineAll(_, _, _)
CombineAll(entries, i, combined) ==
    IF i > Len(entries) THEN combined
    ELSE CombineAll(entries, i + 1, AddStats(combined, entries[i].stats))

Returned(stats) == [raised |-> None, stats |-> stats]

Raised(error) == [raised |-> error, stats |-> NoKeywords]

\* _calculate_stats_uncached with every way it ends: the mapping it returns or the error
\* it raises
CalculateStatsUncached(self, skill, location, activity_name, set_piece_counts, c, my_config) ==
    IF skill = None
    THEN Returned(convert_percentages(CombineAll(UngatedEntries(self), 1, NoKeywords)))
    ELSE IF ~HasSkill(skill) THEN Raised("ValueError")
    ELSE IF ~HasGatedStats(self)
    THEN Returned(convert_percentages(
             CombineEntries(UngatedEntries(self), 1, NoKeywords, skill, location,
                            activity_name, set_piece_counts, c)))
    ELSE IF c # NoCharacter
    THEN Returned(calculate_stats_uncached(self, skill, location, activity_name,
                                           set_piece_counts, c))
    ELSE IF my_config = "missing"
    THEN Returned(convert_percentages(
             CombineEntries(UngatedEntries(self), 1, NoKeywords, skill, location,
                            activity_name, set_piece_counts, c)))
    ELSE IF my_config = "unfilled" THEN Raised("JSONDecodeError")
    ELSE Returned(calculate_stats_uncached(self, skill, location, activity_name,
                                           set_piece_counts, ConfigCharacter))

\* cache_key of get_stats_for_skill: the character is not part of it
CacheKey(self, skill, location, activity_name, set_piece_counts) ==
    <<self, skill, location, activity_name,
      IF DOMAIN set_piece_counts = {} THEN {}
      ELSE {<<n, set_piece_counts[n]>> : n \in DOMAIN set_piece_counts}>>

EmptyCache == [key \in {} |-> NoKeywords]

NoQuery == [self |-> None]

\* the stat sources one process is asked about
CachedSources == {"ROD", "HAT"}

\* the characters whose stats one process serves
StatsCharacters ==
    {[gear |-> NoItems, inventory |-> [NoItems EXCEPT !["H1"] = 1, !["H2"] = q[1]],
      bank |-> NoItems, skill_level |-> q[2], reputation |-> q[3], achievement_points |-> 0] :
        q \in (0..1) \X (1..2) \X (1..1)}

StatsInit ==
    /\ STATS_CACHE = EmptyCache
    /\ edges = <<>>
    /\ thread_locals = <<>>
    /\ sessions = <<>>
    /\ gear_sets = <<>>
    /\ query = NoQuery
    /\ pc = "stats"
    /\ character \in StatsCharacters
    /\ result = None
    /\ activity = None
    /\ alg = None
    /\ slot_idx = 0
    /\ gearset = EmptyGearset
    /\ current_keyword_counts = NoKeywords
    /\ needed_keywords = {}
    /\ best_item = None
    /\ current_value = 0
    /\ best_swap = <<>>
    /\ iteration = 0
    /\ improved = FALSE
    /\ max_iterations = 0
    /\ sorting_priority = <<>>
    /\ tool_slots = 0

\* StatsMixin.get_stats_for_skill(skill, location, activity, set_piece_counts, character)
GetStatsForSkill ==
    /\ pc = "stats"
    /\ \E self \in CachedSources, skill \in {"fishing", "flying"},
          location \in {None, "Vastalume"},
          activity_name \in {None, "diving"},
          set_piece_counts \in {NoKeywords},
          c \in StatsCharacters :
          LET cache_key == CacheKey(self, skill, location, activity_name, set_piece_counts)
          IN /\ cache_key \in DOMAIN STATS_CACHE
                   \/ Cardinality(DOMAIN STATS_CACHE) < MaxCached
             /\ query' = [self |-> self, skill |-> skill, location |-> location,
                          activity |-> activity_name,
                          set_piece_counts |-> set_piece_counts, character |-> c,
                          my_config |-> "missing"]
             /\ character' = c
             /\ IF cache_key \in DOMAIN STATS_CACHE
                THEN /\ result' = Returned(STATS_CACHE[cache_key])
                     /\ UNCHANGED STATS_CACHE
                ELSE \E outcome \in {CalculateStatsUncached(self, skill, location,
                                          activity_name, set_piece_counts, c, "missing")} :
                        /\ result' = outcome
                        /\ STATS_CACHE' =
                              IF outcome.raised # None THEN STATS_CACHE
                              ELSE [key \in DOMAIN STATS_CACHE \cup {cache_key} |->
                                       IF key = cache_key THEN outcome.stats
                                       ELSE STATS_CACHE[key]]
    /\ UNCHANGED <<edges, thread_locals, sessions, gear_sets,
                   activity, alg, pc, slot_idx, gearset, current_keyword_counts,
                   needed_keywords, best_item, current_value, best_swap, iteration, improved,
                   max_iterations, sorting_priority, tool_slots>>

StatsNext == GetStatsForSkill

SpecStats == StatsInit /\ [][StatsNext]_vars

\* C16: a query whose non-empty skill string names no known skill raises ValueError instead
\* of returning stats, and the cache holds no entry under the key of that query.
C16_UnknownSkillRaises ==
    (pc = "stats" /\ query # NoQuery /\ query.skill \notin KnownSkills) =>
        /\ result.raised = "ValueError"
        /\ result.stats = NoKeywords
        /\ CacheKey(query.self, query.skill, query.location, query.activity,
                    query.set_piece_counts) \notin DOMAIN STATS_CACHE

C16_Witness ==
    /\ pc = "stats"
    /\ query # NoQuery
    /\ query.skill = "flying"
    /\ query.self = "HAT"
    /\ result.raised = "ValueError"
    /\ CacheKey("HAT", "fishing", query.location, query.activity, query.set_piece_counts)
           \in DOMAIN STATS_CACHE

\* combined as _calculate_stats_uncached holds it for the arguments of a query before
\* _convert_percentages: the raw values of every table the query reads, summed
SummedRawStats(q) ==
    CombineEntries(StatsData[q.self], 1, NoKeywords, q.skill, q.location, q.activity,
                   q.set_piece_counts, q.character)

\* C14: what get_stats_for_skill returns has every percentage attribute at the summed raw
\* value of the query's arguments divided by 100 once, and every flat or unknown attribute
\* at its summed raw value (values are held in hundredths: a percentage keeps the raw
\* number, a flat value is the raw number times 100), on a first and on a repeated call.
C14_PercentagesScaledOnce ==
    (pc = "stats" /\ query # NoQuery /\ result.raised = None) =>
        \E raw \in {SummedRawStats(query)} :
            /\ DOMAIN result.stats = DOMAIN raw
            /\ \A n \in DOMAIN raw :
                  result.stats[n] = IF n \in PercentageAttributes THEN raw[n]
                                    ELSE 100 * raw[n]

\* C10: whatever calls came before, on behalf of whichever characters, get_stats_for_skill
\* returns the mapping the uncached computation gives for the arguments of the call.
C10_CacheIsTransparent ==
    (pc = "stats" /\ query # NoQuery) =>
        result = CalculateStatsUncached(query.self, query.skill, query.location,
                                        query.activity, query.set_piece_counts,
                                        query.character, query.my_config)

-----------------------------------------------------------------------------
(* StatsMixin: the uncached stat computation on its own *)

\* set_piece_counts a caller hands in
SetPieceCounts == {NoKeywords} \cup {[n \in {"adventurer"} |-> k] : k \in {1, 2, 3, 5}}

\* the characters a caller hands in
CalcCharacters ==
    {[gear |-> NoItems, inventory |-> [NoItems EXCEPT !["H1"] = 1, !["H2"] = q[1]],
      bank |-> NoItems, skill_level |-> q[2], reputation |-> q[3], achievement_points |-> 0] :
        q \in (0..1) \X (1..3) \X (0..2)}

CalcInit ==
    /\ STATS_CACHE = EmptyCache
    /\ edges = <<>>
    /\ thread_locals = <<>>
    /\ sessions = <<>>
    /\ gear_sets = <<>>
    /\ query = NoQuery
    /\ pc = "calc"
    /\ character = NoCharacter
    /\ result = None
    /\ activity = None
    /\ alg = None
    /\ slot_idx = 0
    /\ gearset = EmptyGearset
    /\ current_keyword_counts = NoKeywords
    /\ needed_keywords = {}
    /\ best_item = None
    /\ current_value = 0
    /\ best_swap = <<>>
    /\ iteration = 0
    /\ improved = FALSE
    /\ max_iterations = 0
    /\ sorting_priority = <<>>
    /\ tool_slots = 0

\* StatsMixin._calculate_stats_uncached(skill, location, activity, set_piece_counts, character)
CalculateStats ==
    /\ pc = "calc"
    /\ \E self \in StatSources, skill \in {None, "fishing", "flying"},
          location \in {None} \cup Locations, activity_name \in {None, "diving"},
          set_piece_counts \in SetPieceCounts,
          cm \in (CalcCharacters \X {"missing"}) \cup ({NoCharacter} \X MyConfigs) :
          /\ query' = [self |-> self, skill |-> skill, location |-> location,
                       activity |-> activity_name, set_piece_counts |-> set_piece_counts,
                       character |-> cm[1], my_config |-> cm[2]]
          /\ character' = cm[1]
          /\ result' = CalculateStatsUncached(self, skill, location, activity_name,
                                              set_piece_counts, cm[1], cm[2])
    /\ pc' = "calculated"
    /\ UNCHANGED <<edges, thread_locals, sessions, gear_sets,
                   activity, alg, slot_idx, gearset, current_keyword_counts,
                   needed_keywords, best_item, current_value, best_swap, iteration, improved,
                   max_iterations, sorting_priority, tool_slots, STATS_CACHE>>

CalcNext == CalculateStats

SpecCalc == CalcInit /\ [][CalcNext]_vars

\* a stat of a returned mapping, 0 when the mapping does not hold it
StatOf(stats, n) == IF n \in DOMAIN stats THEN stats[n] ELSE 0

\* the sum of the catalogue's values over the thresholds 1..top that `reached` meets
ThresholdsMet(top, reached) ==
    SumOver({t \in 1..top : t <= reached}, [t \in 1..top |-> ThresholdValue(t)])

\* the piece count a query hands in for the set of the SET source
PiecesOf(set_piece_counts) ==
    IF "adventurer" \in DOMAIN set_piece_counts THEN set_piece_counts["adventurer"] ELSE 0

\* C11: the gated contribution of a threshold-gated table (skill_level, reputation,
\* set_pieces) is the sum of the stats of every threshold the character's level, reputation
\* or piece count meets, not only of the highest: with 2 pieces and thresholds 1..5, the
\* stats of thresholds 1 and 2 are added and those of 3, 4 and 5 are not.
C11_GatedStatsCumulative ==
    (/\ pc = "calculated"
     /\ query.self = "SET"
     /\ query.skill = "fishing"
     /\ query.character # NoCharacter) =>
        /\ result.raised = None
        /\ StatOf(result.stats, "work_efficiency")
              = 1 + 2 * ThresholdsMet(3, query.character.skill_level)
        /\ StatOf(result.stats, "chest_finding")
              = ThresholdsMet(2, query.character.reputation)
        /\ StatOf(result.stats, "double_rewards")
              = ThresholdsMet(5, PiecesOf(query.set_piece_counts))
        /\ PiecesOf(query.set_piece_counts) = 2 =>
              StatOf(result.stats, "double_rewards")
                  = ThresholdValue(1) + ThresholdValue(2)

C11_Witness ==
    /\ pc = "calculated"
    /\ query.self = "SET"
    /\ query.skill = "fishing"
    /\ query.character # NoCharacter
    /\ query.character.skill_level = 3
    /\ query.character.reputation = 2
    /\ PiecesOf(query.set_piece_counts) = 2
    /\ result.raised = None
    /\ result.stats["work_efficiency"] = 15
    /\ result.stats["chest_finding"] = 6
    /\ result.stats["double_rewards"] = 6

\* the stats of self._stats alone for a query: no gated table contributes
UngatedStats(q) ==
    convert_percentages(
        CombineEntries(UngatedEntries(q.self), 1, NoKeywords, q.skill, q.location,
                       q.activity, q.set_piece_counts, q.character))

\* C15: a query without a character on a source with gated stats, in a process whose
\* configuration yields no character (no my_config module, or one whose character export
\* was never filled in), does not fail and returns the ungated stats only.
C15_NoCharacterDegradesGracefully ==
    (/\ pc = "calculated"
     /\ query.character = NoCharacter
     /\ query.my_config \in {"missing", "unfilled"}
     /\ query.skill \in KnownSkills
     /\ HasGatedStats(query.self)) =>
        /\ result.raised = None
        /\ result.stats = UngatedStats(query)

\* the requested location carries the region tag, compared in lower case
HasRegionTag(location, tag_lower) ==
    /\ location # None
    /\ tag_lower \in {Lower(LocationRegions[location][k]) :
                          k \in 1..Len(LocationRegions[location])}

-----------------------------------------------------------------------------
(* aggregate_gearset_stats: the stats of a list of items, set bonuses included *)

MaxItems == 3          \* longest list of items aggregated

\* the set pieces of the catalogue: A1 and A1F are two quality tiers of one crafted item
\* (one uuid); source names the stat tables of the item
SetItemData ==
    [ A1  |-> [uuid |-> "a1", keywords |-> <<"Adventurer">>, source |-> "SET"],
      A1F |-> [uuid |-> "a1", keywords |-> <<"Adventurer">>, source |-> "SET"],
      A2  |-> [uuid |-> "a2", keywords |-> <<"adventurer", "Tool">>, source |-> "SET"],
      A3  |-> [uuid |-> "a3", keywords |-> <<"Adventurer">>, source |-> "SET"],
      PL  |-> [uuid |-> "pl", keywords |-> <<"Tool">>, source |-> "HAT"] ]

SetItems == DOMAIN SetItemData

\* the lower-cased keywords of an item of the list
KeywordsLower(item) ==
    {Lower(SetItemData[item].keywords[k]) : k \in 1..Len(SetItemData[item].keywords)}

\* _calculate_set_piece_counts_from_items: per lower-cased keyword, the number of unique uuids
calculate_set_piece_counts_from_items(items) ==
    LET present == {i \in 1..Len(items) : items[i] # None}
        sets == UNION {KeywordsLower(items[i]) : i \in present}
    IN [set_name \in sets |->
           Cardinality({SetItemData[items[i]].uuid :
                           i \in {k \in present : set_name \in KeywordsLower(items[k])}})]

\* the item loop of aggregate_gearset_stats: item.get_stats_for_skill through the cache,
\* summed into total_stats
RECURSIVE AggregateLoop(_, _, _, _, _, _, _, _)
AggregateLoop(items, i, total_stats, cache, skill, location, set_piece_counts, c) ==
    IF i > Len(items) THEN [stats |-> total_stats, cache |-> cache]
    ELSE IF items[i] = None
    THEN AggregateLoop(items, i + 1, total_stats, cache, skill, location, set_piece_counts, c)
    ELSE LET cache_key == CacheKey(items[i], skill, location, None, set_piece_counts)
             item_stats ==
                 IF cache_key \in DOMAIN cache THEN cache[cache_key]
                 ELSE calculate_stats_uncached(SetItemData[items[i]].source, skill, location,
                                               None, set_piece_counts, c)
         IN AggregateLoop(items, i + 1, AddStats(total_stats, item_stats),
                          [key \in DOMAIN cache \cup {cache_key} |->
                              IF key = cache_key THEN item_stats ELSE cache[key]],
                          skill, location, set_piece_counts, c)

\* aggregate_gearset_stats(items, skill, location, character, include_level_bonus=False,
\* include_collectibles=False)
aggregate_gearset_stats(items, cache, skill, location, c) ==
    AggregateLoop(items, 1, NoKeywords, cache, skill, location,
                  calculate_set_piece_counts_from_items(items), c)

AggregateInit ==
    /\ STATS_CACHE = EmptyCache
    /\ edges = <<>>
    /\ thread_locals = <<>>
    /\ sessions = <<>>
    /\ gear_sets = <<>>
    /\ query \in {[items |-> <<>>, skill |-> "fishing", location |-> l] :
                     l \in {None, "Vastalume"}}
    /\ pc = "aggregate"
    /\ character \in {ConfigCharacter, [ConfigCharacter EXCEPT !.skill_level = 3]}
    /\ result = NoKeywords
    /\ activity = None
    /\ alg = None
    /\ slot_idx = 0
    /\ gearset = EmptyGearset
    /\ current_keyword_counts = NoKeywords
    /\ needed_keywords = {}
    /\ best_item = None
    /\ current_value = 0
    /\ best_swap = <<>>
    /\ iteration = 0
    /\ improved = FALSE
    /\ max_iterations = 0
    /\ sorting_priority = <<>>
    /\ tool_slots = 0

\* the caller adds one entry to the list and aggregates the stats of the longer list
AggregateWithOneMore ==
    /\ pc = "aggregate"
    /\ Len(query.items) < MaxItems
    /\ \E item \in SetItems \cup {None} :
          /\ query' = [query EXCEPT !.items = Append(@, item)]
          /\ \E r \in {aggregate_gearset_stats(query'.items, STATS_CACHE, query.skill,
                                                 query.location, character)} :
                /\ result' = r.stats
                /\ STATS_CACHE' = r.cache
    /\ UNCHANGED <<edges, thread_locals, sessions, gear_sets,
                   character, activity, alg, pc, slot_idx, gearset, current_keyword_counts,
                   needed_keywords, best_item, current_value, best_swap, iteration, improved,
                   max_iterations, sorting_priority, tool_slots>>

AggregateNext == AggregateWithOneMore

SpecAggregate == AggregateInit /\ [][AggregateNext]_vars

\* the uuids of the listed items that carry a set keyword
UuidsOfSet(items, set_name) ==
    {SetItemData[items[i]].uuid :
        i \in {k \in 1..Len(items) : items[k] # None /\ set_name \in KeywordsLower(items[k])}}

\* the entry just added is one more unique piece of the set
AddsUniquePiece(set_name) ==
    LET item == query'.items[Len(query'.items)]
    IN /\ item # None
       /\ set_name \in KeywordsLower(item)
       /\ SetItemData[item].uuid \notin UuidsOfSet(query.items, set_name)

\* C12: adding one more unique item that shares a set keyword never decreases the
\* set-bonus stats the list of items receives for that set.
C12_SetBonusNeverDecreases ==
    [][(pc = "aggregate" /\ AddsUniquePiece("adventurer")) =>
           StatOf(result', "double_rewards") >= StatOf(result, "double_rewards")]_vars

C12_Witness ==
    /\ pc = "aggregate"
    /\ query.items = <<"A1", "A2", "A3">>
    /\ result["double_rewards"] = 3 * (ThresholdValue(1) + ThresholdValue(2)
                                                + ThresholdValue(3))

-----------------------------------------------------------------------------
(* Validation of a given gearset: validate_uuid_uniqueness, validate_tool_keywords and  *)
(* is_gearset_valid applied to gearsets a caller hands in                                *)

ValidateOrder == SlotOrder(GearSlots, 3)

ValidateTools(g) == <<g["tool0"], g["tool1"], g["tool2"]>>

Verdicts(g, c, op) ==
    [op |-> op,
     uuid |-> validate_uuid_uniqueness(Values(g, ValidateOrder), c),
     keywords |-> validate_tool_keywords(ValidateTools(g)),
     valid |-> is_gearset_valid(g, ValidateOrder, c, NoActivity, FALSE, 3)]

\* gearsets whose ring slots hold rings, tool slots tools and gear slots non-ring gear
ValidateGearsets ==
    {[EmptyGearset EXCEPT !["head"] = t[1], !["cape"] = t[2], !["ring1"] = t[3],
                          !["ring2"] = t[4], !["tool0"] = t[5], !["tool1"] = t[6],
                          !["tool2"] = t[7]] :
        t \in {None, "H1"} \X {None, "H1"}
              \X {None, "R1N", "R1G", "R2"} \X {None, "R1G", "R2"}
              \X {None, "T1", "T2", "T3"} \X {None, "T1", "T2", "T3"} \X {None, "T1"}}

ValidateCharacters ==
    {[gear |-> [NoItems EXCEPT !["R1G"] = q[1][1]],
      inventory |-> [NoItems EXCEPT !["R1N"] = q[2], !["R2"] = q[3], !["H1"] = 1, !["T1"] = 1],
      bank |-> [NoItems EXCEPT !["R1G"] = q[1][2]],
      skill_level |-> 2, reputation |-> 1, achievement_points |-> 1] :
        q \in {<<0, 0>>, <<1, 0>>, <<1, 1>>} \X (0..1) \X (0..MaxQty)}

ValidateInit ==
    /\ character \in ValidateCharacters
    /\ gearset \in ValidateGearsets
    /\ pc = "validate"
    /\ result = None
    /\ activity = None
    /\ alg = None
    /\ slot_idx = 0
    /\ current_keyword_counts = NoKeywords
    /\ needed_keywords = {}
    /\ best_item = None
    /\ current_value = 0
    /\ best_swap = <<>>
    /\ iteration = 0
    /\ improved = FALSE
    /\ max_iterations = 0
    /\ sorting_priority = <<>>
    /\ tool_slots = 3
    /\ STATS_CACHE = EmptyCache
    /\ edges = <<>>
    /\ thread_locals = <<>>
    /\ sessions = <<>>
    /\ gear_sets = <<>>
    /\ query = NoQuery

\* the caller validates the gearset
Validate ==
    /\ pc = "validate"
    /\ result' = Verdicts(gearset, character, "validate")
    /\ pc' = "validated"
    /\ UNCHANGED <<edges, thread_locals, sessions, gear_sets,
                   character, activity, alg, slot_idx, gearset, current_keyword_counts,
                   needed_keywords, best_item, current_value, best_swap, iteration, improved,
                   max_iterations, sorting_priority, tool_slots, STATS_CACHE, query>>

\* the caller exchanges the contents of two tool slots and validates again
SwapToolsAndValidate ==
    /\ pc = "validated"
    /\ \E i, j \in 1..3 :
          /\ i < j
          /\ gearset[ToolSlotNames[i]] # gearset[ToolSlotNames[j]]
          /\ gearset' = [gearset EXCEPT ![ToolSlotNames[i]] = gearset[ToolSlotNames[j]],
                                         ![ToolSlotNames[j]] = gearset[ToolSlotNames[i]]]
          /\ result' = Verdicts(gearset', character, "swap")
    /\ UNCHANGED <<edges, thread_locals, sessions, gear_sets,
                   character, activity, alg, pc, slot_idx, current_keyword_counts,
                   needed_keywords, best_item, current_value, best_swap, iteration, improved,
                   max_iterations, sorting_priority, tool_slots, STATS_CACHE, query>>

ValidateNext == Validate \/ SwapToolsAndValidate

SpecValidate == ValidateInit /\ [][ValidateNext]_vars

-----------------------------------------------------------------------------
(* Metrics and rankings *)

MinSteps == 10         \* calculate_activity_metrics: max(steps_with_flat, 10)

Max(a, b) == IF a >= b THEN a ELSE b

\* aggregate_gearset_stats: the sum of stat k over the items of the gearset, None skipped
StatTotal(g, k) ==
    SumOver({sl \in AllSlots : g[sl] # None},
            [sl \in AllSlots |-> IF g[sl] = None THEN 0 ELSE ItemData[g[sl]].w[k]])

\* calculate_gearset_metrics: stat 1 adds xp, stats 2 and 3 take steps off, down to MinSteps
calculate_gearset_metrics(g, a) ==
    [primary_xp_per_step |-> a.base_xp + StatTotal(g, 1),
     expected_steps_per_action |-> Max(a.base_steps - StatTotal(g, 2), MinSteps),
     steps_per_reward_roll |-> Max(a.base_steps - StatTotal(g, 3), MinSteps)]

\* members of the Sorting enum: the metric ranked by and whether higher is better
XP_PER_STEP == [metric_key |-> "primary_xp_per_step", is_reverse |-> TRUE]

STEPS_PER_ACTION == [metric_key |-> "expected_steps_per_action", is_reverse |-> FALSE]

STEPS_PER_REWARD_ROLL == [metric_key |-> "steps_per_reward_roll", is_reverse |-> FALSE]

SortingPriorities ==
    { <<XP_PER_STEP, STEPS_PER_ACTION, STEPS_PER_REWARD_ROLL>>,
      <<STEPS_PER_ACTION, XP_PER_STEP, STEPS_PER_REWARD_ROLL>> }

\* Sorting.is_better: lexicographic over the priority list, each level in its own direction
RECURSIVE SortingIsBetter(_, _, _, _)
SortingIsBetter(metrics_a, metrics_b, priority, k) ==
    IF k > Len(priority) THEN FALSE
    ELSE LET val_a == metrics_a[priority[k].metric_key]
             val_b == metrics_b[priority[k].metric_key]
         IN IF val_a = val_b THEN SortingIsBetter(metrics_a, metrics_b, priority, k + 1)
            ELSE IF priority[k].is_reverse THEN val_a > val_b ELSE val_a < val_b

\* compare of create_multi_level_comparator(primary_minimize), secondary_minimize=False,
\* tertiary_minimize=True
compare(new_scores, old_scores, primary_minimize) ==
    IF primary_minimize /\ new_scores[1] < old_scores[1] THEN TRUE
    ELSE IF primary_minimize /\ new_scores[1] > old_scores[1] THEN FALSE
    ELSE IF ~primary_minimize /\ new_scores[1] > old_scores[1] THEN TRUE
    ELSE IF ~primary_minimize /\ new_scores[1] < old_scores[1] THEN FALSE
    ELSE IF Len(new_scores) > 1 /\ Len(old_scores) > 1 /\ new_scores[2] > old_scores[2] THEN TRUE
    ELSE IF Len(new_scores) > 1 /\ Len(old_scores) > 1 /\ new_scores[2] < old_scores[2] THEN FALSE
    ELSE IF Len(new_scores) > 2 /\ Len(old_scores) > 2 /\ new_scores[3] < old_scores[3] THEN TRUE
    ELSE FALSE

\* the inline comparison with the direction of the primary metric turned around
InlineIsBetterFlipped(test_metrics, best_value, best_metrics, priority) ==
    IF priority[1].is_reverse
    THEN test_metrics[priority[1].metric_key] < best_value
    ELSE test_metrics[priority[1].metric_key] > best_value

\* the inline multi-level comparison of optimize_activity_complete
InlineIsBetter(test_metrics, best_value, best_metrics, priority) ==
    LET test_value == test_metrics[priority[1].metric_key]
        test_sec == test_metrics[priority[2].metric_key]
        best_sec == best_metrics[priority[2].metric_key]
        test_ter == test_metrics[priority[3].metric_key]
        best_ter == best_metrics[priority[3].metric_key]
        ter_better == IF priority[3].is_reverse THEN test_ter > best_ter ELSE test_ter < best_ter
        sec_better ==
            IF priority[2].is_reverse
            THEN (test_sec > best_sec \/ (test_sec = best_sec /\ ter_better))
            ELSE (test_sec < best_sec \/ (test_sec = best_sec /\ ter_better))
    IN IF priority[1].is_reverse
       THEN (test_value > best_value \/ (test_value = best_value /\ sec_better))
       ELSE (test_value < best_value \/ (test_value = best_value /\ sec_better))

-----------------------------------------------------------------------------
(* The three optimizers *)

Algs == {"for_activity", "complete", "generic"}

\* the slots in the order the optimizer fills and scans them
Order == SlotOrder(IF alg = "generic" THEN GenericGearSlots ELSE GearSlots, tool_slots)

\* all_items: owned and unlocked, in the order of character.items
AllItems(c) ==
    SelectSeq(ItemOrder, LAMBDA item : CharacterItems(c)[item] > 0 /\ ItemIsUnlocked(item, c))

\* item_has_keyword: case-insensitive, substring or exact
item_has_keyword(item, keyword) ==
    \E k \in 1..Len(ItemKeywords(item)) :
        IsSubstring(Lower(keyword), Lower(ItemKeywords(item)[k]))

\* metric_value * 1.5 or * 0.5 for an item with a needed keyword; every value doubled
Boost(metric_value, has_needed, is_reverse) ==
    IF has_needed THEN (IF is_reverse THEN 3 * metric_value ELSE metric_value)
    ELSE 2 * metric_value

\* the items of all_items a slot's loop does not pass over (item.slot == item_slot)
SlotItems(all_items, slot) ==
    SelectSeq(all_items, LAMBDA item : ItemSlot(item) = ItemSlotOf(slot))

\* one candidate of a greedy slot of optimize_for_activity: whether a `continue` skips it,
\* and its metric after the boost
GreedyTrial(item, needed, has_needed, test_gearset) ==
    [item |-> item,
     skipped |-> \/ (needed # {} /\ ~has_needed)
                 \/ ~is_gearset_valid(test_gearset, Order, character, NoActivity, FALSE,
                                      tool_slots),
     metric |-> Boost(calculate_gearset_metrics(test_gearset, activity)
                          [sorting_priority[1].metric_key],
                      has_needed, sorting_priority[1].is_reverse)]

\* best_item and best_metric after a candidate; best.item = None stands for +-inf
GreedyKeep(best, trial) ==
    IF trial.skipped THEN best
    ELSE IF \/ best.item = None
            \/ (sorting_priority[1].is_reverse /\ trial.metric > best.metric)
            \/ (~sorting_priority[1].is_reverse /\ trial.metric < best.metric)
         THEN [item |-> trial.item, metric |-> trial.metric]
    ELSE best

\* the candidate loop of one greedy slot of optimize_for_activity; optimize_activity_complete
\* runs the same loop without keywords (needed = {})
RECURSIVE GreedySlotScan(_, _, _, _, _)
GreedySlotScan(items, i, slot, needed, best) ==
    IF i > Len(items) THEN best
    ELSE GreedySlotScan(items, i + 1, slot, needed,
             GreedyKeep(best,
                 GreedyTrial(items[i], needed,
                             \E kw \in needed : item_has_keyword(items[i], kw),
                             [gearset EXCEPT ![slot] = items[i]])))

\* position of an item in a list without repetitions
Pos(items, item) == CHOOSE k \in 1..Len(items) : items[k] = item

\* filter_items_by_quality(keep_highest_only=True): one item per base, the highest quality
filter_items_by_quality(items) ==
    LET first_of_base ==
            SelectSeq(items, LAMBDA item :
                \A k \in 1..Len(items) :
                    ItemData[items[k]].base = ItemData[item].base => Pos(items, item) <= k)
        best_of(base) ==
            CHOOSE item \in Range(items) :
                /\ ItemData[item].base = base
                /\ \A other \in Range(items) :
                      ItemData[other].base = base =>
                          ItemData[other].quality <= ItemData[item].quality
    IN [k \in 1..Len(first_of_base) |-> best_of(ItemData[first_of_base[k]].base)]

\* items_by_slot[slot] of optimize_activity: the filtered items of the slot, then None
ItemsBySlot(slot) ==
    SelectSeq(filter_items_by_quality(AllItems(character)),
              LAMBDA item : ItemSlot(item) = ItemSlotOf(slot)) \o <<None>>

\* score_function of optimize_activity; optimize_for is read off the primary Sorting
score_function(g) ==
    LET metrics == calculate_gearset_metrics(g, activity)
        key == sorting_priority[1].metric_key
    IN IF key = "primary_xp_per_step" THEN <<0 - metrics.primary_xp_per_step>>
       ELSE <<metrics[key]>>

\* validate_function of optimize_activity
validate_function(g, a) ==
    /\ validate_tool_keywords([i \in 1..tool_slots |-> g[ToolSlotNames[i]]])
    /\ validate_uuid_uniqueness(Values(g, Order), character)
    /\ meets_activity_requirements(g, a, character)

\* one candidate of a greedy slot of optimize_gearset_greedy_local_search
GenericTrial(item, test_gearset) ==
    [item |-> item,
     valid |-> validate_function(test_gearset, activity),
     score |-> score_function(test_gearset)]

\* best_item and best_score after a candidate
GenericKeep(best, trial) ==
    IF ~trial.valid THEN best
    ELSE IF ~best.found \/ compare(trial.score, best.score, TRUE)
         THEN [found |-> TRUE, item |-> trial.item, score |-> trial.score]
    ELSE best

\* the candidate loop of one greedy slot of optimize_gearset_greedy_local_search
RECURSIVE GenericSlotScan(_, _, _, _)
GenericSlotScan(items, i, slot, best) ==
    IF i > Len(items) THEN best
    ELSE GenericSlotScan(items, i + 1, slot,
             GenericKeep(best, GenericTrial(items[i], [gearset EXCEPT ![slot] = items[i]])))

\* one swap a local-search round of optimize_for_activity / optimize_activity_complete tries
RoundTrial(slot, new_item, test_gearset) ==
    [swap |-> <<slot, gearset[slot], new_item>>,
     gearset |-> test_gearset,
     valid |-> /\ new_item # gearset[slot]
               /\ is_gearset_valid(test_gearset, Order, character, activity, TRUE, tool_slots),
     metrics |-> calculate_gearset_metrics(test_gearset, activity)]

\* best_swap, best_value, best_gearset and best_gearset_metrics after a tried swap
RoundKeep(best, trial) ==
    IF /\ trial.valid
       /\ IF alg = "for_activity"
          THEN SortingIsBetter(trial.metrics, best.metrics, sorting_priority, 1)
          ELSE InlineIsBetter(trial.metrics, best.value, best.metrics, sorting_priority)
    THEN [improved |-> TRUE, swap |-> trial.swap, gearset |-> trial.gearset,
          metrics |-> trial.metrics,
          value |-> trial.metrics[sorting_priority[1].metric_key]]
    ELSE best

\* one round of the local search of optimize_for_activity and optimize_activity_complete:
\* every slot against every item of all_items, the best valid swap kept
RECURSIVE RoundScan(_, _, _, _)
RoundScan(s, i, items, best) ==
    IF i > Len(items)
    THEN IF s = Len(Order) THEN best
         ELSE RoundScan(s + 1, 1, SlotItems(AllItems(character), Order[s + 1]), best)
    ELSE RoundScan(s, i + 1, items,
             RoundKeep(best,
                 RoundTrial(Order[s], items[i], [gearset EXCEPT ![Order[s]] = items[i]])))

\* best_swap, best_value, best_gearset and best_gearset_metrics as a round starts
RoundStart ==
    [improved |-> FALSE, swap |-> <<>>, gearset |-> gearset,
     metrics |-> calculate_gearset_metrics(gearset, activity), value |-> current_value]

\* one swap a pass of the while loop of optimize_gearset_greedy_local_search tries
GenericSwap(slot, item, test_gearset, test_score) ==
    [improved |-> /\ item # gearset[slot]
                  /\ validate_function(test_gearset, activity)
                  /\ compare(test_score, <<current_value>>, TRUE),
     swap |-> <<slot, gearset[slot], item>>,
     gearset |-> test_gearset,
     value |-> test_score[1]]

\* one pass of the while loop of optimize_gearset_greedy_local_search: slot s from its
\* item i on, the first improving swap taken
RECURSIVE GenericRoundScan(_, _, _)
RECURSIVE GenericFirst(_, _, _, _)
GenericFirst(trial, s, i, items) ==
    IF trial.improved THEN trial ELSE GenericRoundScan(s, i + 1, items)

GenericRoundScan(s, i, items) ==
    IF i > Len(items)
    THEN IF s = Len(Order)
         THEN [improved |-> FALSE, swap |-> <<>>, gearset |-> gearset,
               value |-> current_value]
         ELSE GenericRoundScan(s + 1, 1, ItemsBySlot(Order[s + 1]))
    ELSE GenericFirst(GenericSwap(Order[s], items[i], [gearset EXCEPT ![Order[s]] = items[i]],
                                  score_function([gearset EXCEPT ![Order[s]] = items[i]])),
                      s, i, items)

RECURSIVE FixScan(_, _, _)

\* a fix that takes the first swap that unlocks the activity, valid or not
FixFirstUnlocked(test_gearset, s, i, items) ==
    IF ActivityIsUnlocked(activity, test_gearset, character)
    THEN test_gearset
    ELSE FixScan(s, i + 1, items)

\* the post-greedy fix of optimize_activity_complete: the first valid single swap, slot by
\* slot, that unlocks the activity; the gearset as it is when there is none
FixFirst(test_gearset, s, i, items) ==
    IF /\ is_gearset_valid(test_gearset, Order, character, NoActivity, FALSE, tool_slots)
       /\ ActivityIsUnlocked(activity, test_gearset, character)
    THEN test_gearset
    ELSE FixScan(s, i + 1, items)

FixScan(s, i, items) ==
    IF i > Len(items)
    THEN IF s = Len(Order) THEN gearset
         ELSE FixScan(s + 1, 1, SlotItems(AllItems(character), Order[s + 1]))
    ELSE FixFirst([gearset EXCEPT ![Order[s]] = items[i]], s, i, items)

\* the value of the primary metric the local search starts from
PrimaryValue(g) == calculate_gearset_metrics(g, activity)[sorting_priority[1].metric_key]

\* where a run stands once `rounds` rounds are done and the last one improved
AfterRound(rounds) == IF rounds < max_iterations THEN "local" ELSE "return"

Characters ==
    {[gear |-> [NoItems EXCEPT !["T3"] = 1],
      inventory |-> [i \in Items |->
                        IF i = "H1" THEN 1
                        ELSE IF i = "H2" THEN q[1]
                        ELSE IF i \in Fillers THEN q[2]
                        ELSE IF i = "R1N" THEN q[3]
                        ELSE IF i = "R1G" THEN q[4]
                        ELSE IF i = "R2" THEN q[5]
                        ELSE IF i = "T1" THEN 1
                        ELSE IF i = "T4" THEN 1
                        ELSE 0],
      bank |-> [NoItems EXCEPT !["T2"] = 1],
      skill_level |-> 2, reputation |-> 1, achievement_points |-> 1] :
        q \in (0..1) \X (0..1) \X (0..1) \X (0..1) \X (0..1)}

Init ==
    /\ character \in Characters
    /\ activity \in Activities
    /\ alg \in Algs
    /\ max_iterations \in 0..MaxIter
    /\ sorting_priority \in SortingPriorities
    /\ tool_slots \in 1..MaxToolSlots
    /\ pc = "greedy"
    /\ slot_idx = 1
    /\ gearset = EmptyGearset
    /\ current_keyword_counts = [kw \in DOMAIN activity.keyword_counts |-> 0]
    /\ needed_keywords = {}
    /\ best_item = None
    /\ current_value = 0
    /\ best_swap = <<>>
    /\ iteration = 0
    /\ improved = FALSE
    /\ result = None
    /\ STATS_CACHE = EmptyCache
    /\ edges = <<>>
    /\ thread_locals = <<>>
    /\ sessions = <<>>
    /\ gear_sets = <<>>
    /\ query = NoQuery

\* optimize_for_activity: one slot of the greedy initialization
GreedyForActivity ==
    /\ alg = "for_activity"
    /\ pc = "greedy"
    /\ slot_idx <= Len(Order)
    /\ LET slot == Order[slot_idx]
           required_keywords == activity.keyword_counts
           needed == {kw \in DOMAIN required_keywords :
                         current_keyword_counts[kw] < required_keywords[kw]}
       IN \E best \in {GreedySlotScan(SlotItems(AllItems(character), slot), 1, slot, needed,
                                      [item |-> None, metric |-> 0])} :
             /\ gearset' = [gearset EXCEPT ![slot] = best.item]
             /\ needed_keywords' = needed
             /\ best_item' = best.item
             /\ current_keyword_counts' =
                   [kw \in DOMAIN required_keywords |->
                       IF best.item # None /\ item_has_keyword(best.item, kw)
                       THEN current_keyword_counts[kw] + 1
                       ELSE current_keyword_counts[kw]]
    /\ slot_idx' = slot_idx + 1
    /\ IF slot_idx = Len(Order)
       THEN /\ current_value' = PrimaryValue(gearset')
            /\ pc' = AfterRound(0)
       ELSE UNCHANGED <<current_value, pc>>
    /\ UNCHANGED <<edges, thread_locals, sessions, gear_sets,
                   character, activity, alg, best_swap, iteration, improved, max_iterations,
                   sorting_priority, tool_slots, result, STATS_CACHE, query>>

\* optimize_activity_complete: one slot of the greedy initialization
GreedyComplete ==
    /\ alg = "complete"
    /\ pc = "greedy"
    /\ slot_idx <= Len(Order)
    /\ \E best \in {GreedySlotScan(SlotItems(AllItems(character), Order[slot_idx]), 1,
                                   Order[slot_idx], {},
                                   [item |-> None, metric |-> 0])} :
          /\ gearset' = [gearset EXCEPT ![Order[slot_idx]] = best.item]
          /\ best_item' = best.item
    /\ slot_idx' = slot_idx + 1
    /\ pc' = IF slot_idx = Len(Order) THEN "fix" ELSE pc
    /\ UNCHANGED <<edges, thread_locals, sessions, gear_sets,
                   character, activity, alg, current_keyword_counts, needed_keywords,
                   current_value, best_swap, iteration, improved, max_iterations,
                   sorting_priority, tool_slots, result, STATS_CACHE, query>>

\* optimize_activity_complete: the post-greedy fix, then the entry of the local search;
\* `for iteration in range(max_iterations)` has not bound iteration yet
PostGreedyFix ==
    /\ alg = "complete"
    /\ pc = "fix"
    /\ gearset' =
          IF /\ is_gearset_complete(gearset, tool_slots)
             /\ ~ActivityIsUnlocked(activity, gearset, character)
          THEN FixScan(1, 1, SlotItems(AllItems(character), Order[1]))
          ELSE gearset
    /\ current_value' = PrimaryValue(gearset')
    /\ iteration' = -1
    /\ pc' = AfterRound(0)
    /\ UNCHANGED <<edges, thread_locals, sessions, gear_sets,
                   character, activity, alg, slot_idx, current_keyword_counts, needed_keywords,
                   best_item, best_swap, improved, max_iterations, sorting_priority,
                   tool_slots, result, STATS_CACHE, query>>

\* optimize_gearset_greedy_local_search under optimize_activity: one slot of the greedy
\* initialization
GreedyGeneric ==
    /\ alg = "generic"
    /\ pc = "greedy"
    /\ slot_idx <= Len(Order)
    /\ \E best \in {GenericSlotScan(ItemsBySlot(Order[slot_idx]), 1, Order[slot_idx],
                                    [found |-> FALSE, item |-> None, score |-> <<>>])} :
          /\ gearset' = [gearset EXCEPT ![Order[slot_idx]] = best.item]
          /\ best_item' = best.item
    /\ slot_idx' = slot_idx + 1
    /\ IF slot_idx = Len(Order)
       THEN /\ current_value' = score_function(gearset')[1]
            /\ improved' = TRUE
            /\ pc' = AfterRound(0)
       ELSE UNCHANGED <<current_value, improved, pc>>
    /\ UNCHANGED <<edges, thread_locals, sessions, gear_sets,
                   character, activity, alg, current_keyword_counts, needed_keywords,
                   best_swap, iteration, max_iterations, sorting_priority, tool_slots, result,
                   STATS_CACHE, query>>

\* optimize_for_activity: one round of the local search
LocalSearchForActivity ==
    /\ alg = "for_activity"
    /\ pc = "local"
    /\ \E best \in {RoundScan(1, 1, SlotItems(AllItems(character), Order[1]), RoundStart)} :
          /\ improved' = best.improved
          /\ best_swap' = best.swap
          /\ gearset' = best.gearset
          /\ current_value' = best.value
          /\ pc' = IF best.improved THEN AfterRound(iteration + 1) ELSE "return"
    /\ iteration' = iteration + 1
    /\ UNCHANGED <<edges, thread_locals, sessions, gear_sets,
                   character, activity, alg, slot_idx, current_keyword_counts, needed_keywords,
                   best_item, max_iterations, sorting_priority, tool_slots, result,
                   STATS_CACHE, query>>

\* optimize_activity_complete: one round of the local search; iteration is the loop variable
LocalSearchComplete ==
    /\ alg = "complete"
    /\ pc = "local"
    /\ \E best \in {RoundScan(1, 1, SlotItems(AllItems(character), Order[1]), RoundStart)} :
          /\ improved' = best.improved
          /\ best_swap' = best.swap
          /\ gearset' = best.gearset
          /\ current_value' = best.value
          /\ pc' = IF best.improved THEN AfterRound(iteration + 2) ELSE "return"
    /\ iteration' = iteration + 1
    /\ UNCHANGED <<edges, thread_locals, sessions, gear_sets,
                   character, activity, alg, slot_idx, current_keyword_counts, needed_keywords,
                   best_item, max_iterations, sorting_priority, tool_slots, result,
                   STATS_CACHE, query>>

\* optimize_gearset_greedy_local_search: one pass of the while loop
LocalSearchGeneric ==
    /\ alg = "generic"
    /\ pc = "local"
    /\ \E found \in {GenericRoundScan(1, 1, ItemsBySlot(Order[1]))} :
          /\ improved' = found.improved
          /\ best_swap' = found.swap
          /\ gearset' = found.gearset
          /\ current_value' = found.value
          /\ pc' = IF found.improved THEN AfterRound(iteration + 1) ELSE "return"
    /\ iteration' = iteration + 1
    /\ UNCHANGED <<edges, thread_locals, sessions, gear_sets,
                   character, activity, alg, slot_idx, current_keyword_counts, needed_keywords,
                   best_item, max_iterations, sorting_priority, tool_slots, result,
                   STATS_CACHE, query>>

\* the return statement; optimize_activity_complete evaluates iteration + 1, which raises
\* UnboundLocalError when the loop never bound iteration
Return ==
    /\ pc = "return"
    /\ IF alg = "complete" /\ iteration = -1
       THEN /\ pc' = "raised"
            /\ result' = [raised |-> "UnboundLocalError"]
       ELSE /\ pc' = "done"
            /\ result' = [gearset |-> gearset,
                          iterations |-> IF alg = "complete" THEN iteration + 1
                                         ELSE iteration]
    /\ UNCHANGED <<edges, thread_locals, sessions, gear_sets,
                   character, activity, alg, slot_idx, gearset, current_keyword_counts,
                   needed_keywords, best_item, current_value, best_swap, iteration, improved,
                   max_iterations, sorting_priority, tool_slots, STATS_CACHE, query>>

Next ==
    \/ GreedyForActivity
    \/ GreedyComplete
    \/ PostGreedyFix
    \/ GreedyGeneric
    \/ LocalSearchForActivity
    \/ LocalSearchComplete
    \/ LocalSearchGeneric
    \/ Return

Spec == Init /\ [][Next]_vars

-----------------------------------------------------------------------------
(* Properties of the optimizers *)

\* what the character owns of one item object, over gear, inventory and bank
OwnedOfItem(c, item) == c.gear[item] + c.inventory[item] + c.bank[item]

\* the greedy initialization is over
GreedyOver == pc \in {"fix", "local", "return", "done", "raised"}

\* C1: once the greedy initialization is over, and so after every accepted swap and in the
\* returned gearset, no uuid sits in two different non-ring slots and no ring item sits in
\* ring1/ring2 more often than the character owns it.
C1_GearsetUnique ==
    GreedyOver =>
        /\ \A s1, s2 \in AllSlots :
              (/\ s1 # s2
               /\ ~IsRingSlot(s1)
               /\ ~IsRingSlot(s2)
               /\ gearset[s1] # None
               /\ gearset[s2] # None) => ItemUuid(gearset[s1]) # ItemUuid(gearset[s2])
        /\ \A item \in Items :
              Cardinality({sl \in {"ring1", "ring2"} : gearset[sl] = item})
                  <= OwnedOfItem(character, item)

\* the primary metric of a gearset and whether higher is better
PrimaryOf(g) == calculate_gearset_metrics(g, activity)[sorting_priority[1].metric_key]

\* a strictly better than b at level k of the ranking
LevelBetter(a, b, k) ==
    LET va == calculate_gearset_metrics(a, activity)[sorting_priority[k].metric_key]
        vb == calculate_gearset_metrics(b, activity)[sorting_priority[k].metric_key]
    IN IF sorting_priority[k].is_reverse THEN va > vb ELSE va < vb

LevelEqual(a, b, k) ==
    calculate_gearset_metrics(a, activity)[sorting_priority[k].metric_key]
        = calculate_gearset_metrics(b, activity)[sorting_priority[k].metric_key]

\* C2: every swap a local-search round accepts leaves the primary metric no worse than it
\* was: strictly better on the primary metric, or equal on it and better on a tie-break
\* metric (the secondary, or the tertiary when the secondary ties too).
C2_PrimaryNeverRegresses ==
    [][(pc = "local" /\ gearset' # gearset) =>
           \/ LevelBetter(gearset', gearset, 1)
           \/ /\ LevelEqual(gearset', gearset, 1)
              /\ alg # "generic"
              /\ \/ LevelBetter(gearset', gearset, 2)
                 \/ (LevelEqual(gearset', gearset, 2) /\ LevelBetter(gearset', gearset, 3))]_vars

C2_Witness ==
    /\ alg = "complete"
    /\ pc \in {"local", "return"}
    /\ iteration = 1
    /\ improved
    /\ best_swap # <<>>
    /\ gearset[best_swap[1]] = best_swap[3]

\* the valid single-slot swaps of the current gearset, as the running optimizer forms and
\* validates them
ValidSwaps ==
    IF alg = "generic"
    THEN {t \in {[gearset EXCEPT ![sl] = item] :
                    sl \in Range(Order), item \in Items \cup {None}} :
             /\ t # gearset
             /\ \E sl \in Range(Order) : t[sl] # gearset[sl] /\ t[sl] \in Range(ItemsBySlot(sl))
             /\ validate_function(t, activity)}
    ELSE {t \in {[gearset EXCEPT ![sl] = item] : sl \in Range(Order), item \in Items} :
             /\ t # gearset
             /\ \E sl \in Range(Order) :
                   /\ t[sl] # gearset[sl]
                   /\ t[sl] \in Range(SlotItems(AllItems(character), sl))
             /\ is_gearset_valid(t, Order, character, activity, TRUE, tool_slots)}

\* a ranks strictly above b under the comparison of the running optimizer
RankedAbove(a, b) ==
    IF alg = "generic" THEN compare(score_function(a), score_function(b), TRUE)
    ELSE SortingIsBetter(calculate_gearset_metrics(a, activity),
                         calculate_gearset_metrics(b, activity), sorting_priority, 1)

\* C3: the swap a local-search round applies is the best of all valid single-slot swaps of
\* the gearset the round started from: none of them ranks above it.
C3_BestOfRound ==
    [][(pc = "local" /\ gearset' # gearset) =>
           \A t \in ValidSwaps : ~RankedAbove(t, gearset')]_vars

\* C4: for every max_iterations >= 0 a run ends by returning normally, with an iteration
\* count of at most max_iterations.
C4_ReturnsWithinLimit ==
    (pc \in {"done", "raised"}) => (pc = "done" /\ result.iterations <= max_iterations)

\* the verdict of the validity check the greedy initialization applies to a trial gearset
GreedyAccepts(test_gearset) ==
    IF alg = "generic" THEN validate_function(test_gearset, activity)
    ELSE is_gearset_valid(test_gearset, Order, character, NoActivity, FALSE, tool_slots)

\* the trial gearsets the next greedy step forms
GreedyTrials ==
    {[gearset EXCEPT ![Order[slot_idx]] = item] :
        item \in IF alg = "generic" THEN Range(ItemsBySlot(Order[slot_idx]))
                 ELSE Range(SlotItems(AllItems(character), Order[slot_idx]))}

\* C5: during greedy initialization a trial gearset passes the validity check exactly when
\* it passes uuid uniqueness and tool-keyword exclusivity: the activity's requirements
\* reject nothing.
C5_GreedySkipsRequirements ==
    (pc = "greedy" /\ slot_idx <= Len(Order)) =>
        \A t \in GreedyTrials :
            GreedyAccepts(t) <=>
                (/\ validate_uuid_uniqueness(Values(t, Order), character)
                 /\ validate_tool_keywords([i \in 1..tool_slots |-> t[ToolSlotNames[i]]]))

\* the keywords the activity still needs, given the counts so far
StillNeeded ==
    {kw \in DOMAIN activity.keyword_counts :
        current_keyword_counts[kw] < activity.keyword_counts[kw]}

\* the candidates of the next greedy slot that pass the validity check
EligibleItems ==
    {item \in Range(SlotItems(AllItems(character), Order[slot_idx])) :
        GreedyAccepts([gearset EXCEPT ![Order[slot_idx]] = item])}

\* twice the primary metric of a candidate after the boost of 1.5 or 0.5
BoostedTwice(item) ==
    LET value == PrimaryOf([gearset EXCEPT ![Order[slot_idx]] = item])
    IN IF \E kw \in StillNeeded : item_has_keyword(item, kw)
       THEN (IF sorting_priority[1].is_reverse THEN 3 * value ELSE value)
       ELSE 2 * value

\* C6: a greedy step of optimize_for_activity picks, among all the candidates of the slot
\* that pass the validity check, with or without a needed keyword, one whose boosted
\* primary metric none of them beats; the slot stays empty only when there is no candidate.
C6_BoostIsNoFilter ==
    [][(alg = "for_activity" /\ pc = "greedy") =>
           IF EligibleItems = {} THEN best_item' = None
           ELSE /\ best_item' \in EligibleItems
                /\ \A item \in EligibleItems :
                      IF sorting_priority[1].is_reverse
                      THEN BoostedTwice(item) <= BoostedTwice(best_item')
                      ELSE BoostedTwice(item) >= BoostedTwice(best_item')]_vars

-----------------------------------------------------------------------------
(* Properties of the validators *)

\* how often an item object is equipped in a gearset
Uses(g, item) == Cardinality({sl \in AllSlots : g[sl] = item})

\* what the character owns of a uuid, summed over gear, inventory and bank
OwnedOfUuid(c, uuid) ==
    SumOver({i \in Items : ItemUuid(i) = uuid},
            [i \in Items |-> c.gear[i] + c.inventory[i] + c.bank[i]])

\* one uuid in two tool slots, or in two gear slots that are not ring slots
DuplicatedStrict(g) ==
    \E s1, s2 \in AllSlots :
        /\ s1 # s2
        /\ g[s1] # None
        /\ g[s2] # None
        /\ ItemUuid(g[s1]) = ItemUuid(g[s2])
        /\ ~IsRingSlot(s1)
        /\ ~IsRingSlot(s2)
        /\ IsToolSlot(s1) = IsToolSlot(s2)

SameRingUuidTwice(g) ==
    /\ g["ring1"] # None
    /\ g["ring2"] # None
    /\ ItemUuid(g["ring1"]) = ItemUuid(g["ring2"])

\* C7: validate_uuid_uniqueness returns false whenever a uuid sits in two tool slots or in
\* two non-ring gear slots, and, for a gearset with no such duplicate and one ring uuid in
\* ring1 and ring2, returns true exactly when the character owns at least 2 of that uuid
\* across gear, inventory and bank.
C7_UniquenessVerdict ==
    pc = "validated" =>
        /\ DuplicatedStrict(gearset) => ~result.uuid
        /\ (SameRingUuidTwice(gearset) /\ ~DuplicatedStrict(gearset)) =>
              (result.uuid <=> OwnedOfUuid(character, ItemUuid(gearset["ring1"])) >= 2)

C7_Witness ==
    /\ pc = "validated"
    /\ gearset["ring1"] = "R1G"
    /\ gearset["ring2"] = "R1G"
    /\ gearset["tool0"] = "T1"
    /\ character.gear["R1G"] = 1
    /\ character.bank["R1G"] = 1
    /\ character.inventory["R1N"] = 0
    /\ result.uuid

\* C8: a gearset that validate_uuid_uniqueness accepts equips no owned item instance (an
\* item at one quality tier) more often than the character owns that instance.
C8_NoInstanceAboveOwned ==
    (pc = "validated" /\ result.uuid) =>
        \A item \in Items :
            CharacterItems(character)[item] > 0 =>
                Uses(gearset, item) <= CharacterItems(character)[item]

\* C9: exchanging the contents of two tool slots changes neither the verdict of
\* validate_tool_keywords nor the verdict of is_gearset_valid.
C9_ToolOrderInvariant ==
    [][(pc = "validated" /\ pc' = "validated") =>
           (result'.keywords = result.keywords /\ result'.valid = result.valid)]_vars

C9_Witness ==
    /\ pc = "validated"
    /\ result.op = "swap"
    /\ gearset["tool0"] = "T2"
    /\ gearset["tool1"] = "T3"
    /\ gearset["tool2"] = "T1"
    /\ ~result.keywords
    /\ ~result.valid

-----------------------------------------------------------------------------
(* The step cost of one action: calculate_activity_metrics, calculate_crafting_metrics  *)
(* and ActivityInfo.get_expected_drop_rate. Percentages (work_efficiency,               *)
(* max_efficiency, steps_percent, double_action) are held in hundredths; a step count   *)
(* that the code keeps as a float is held in hundredths of a step.                      *)

\* math.ceil(a / b) for b > 0
CeilDiv(a, b) == 0 - ((0 - a) \div b)

Min(a, b) == IF a <= b THEN a ELSE b

\* the inputs of the metric functions: base_steps, max_efficiency and the aggregated stats
MetricInputs ==
    [base_steps : {10, 12, 40}, max_efficiency : {0, 50},
     work_efficiency : {0 - 50, 0, 30, 100}, steps_percent : {0 - 50, 0 - 5, 0, 10},
     steps_add : {0 - 20, 0 - 3, 0, 2}, double_action : {0, 50}]

\* calculate_activity_metrics: steps_per_single_action (hundredths of a step) and
\* expected_steps_per_action
calculate_activity_metrics(q) ==
    LET capped_we == Min(q.work_efficiency, q.max_efficiency)
        steps_with_efficiency == CeilDiv(100 * q.base_steps, 100 + capped_we)
        min_steps == CeilDiv(100 * q.base_steps, 100 + q.max_efficiency)
        steps_after_min == Max(steps_with_efficiency, min_steps)
        steps_with_pct == steps_after_min * (100 + q.steps_percent)
        steps_with_flat == steps_with_pct + 100 * q.steps_add
        steps_per_single_action == Max(steps_with_flat, 100 * MinSteps)
    IN [steps_per_single_action |-> steps_per_single_action,
        expected_steps_per_action |->
            CeilDiv(steps_per_single_action, 100 + q.double_action)]

\* calculate_crafting_metrics: current_steps (hundredths of a step) and
\* expected_steps_per_action
calculate_crafting_metrics(q) ==
    LET capped_we == Min(q.work_efficiency, q.max_efficiency)
        steps_with_efficiency == CeilDiv(100 * q.base_steps, 100 + capped_we)
        steps_with_pct == steps_with_efficiency * (100 + q.steps_percent)
        steps_with_flat == steps_with_pct + 100 * q.steps_add
        current_steps == Max(CeilDiv(steps_with_flat, 100), 1)
    IN [steps_per_single_action |-> 100 * current_steps,
        expected_steps_per_action |-> CeilDiv(100 * current_steps, 100 + q.double_action)]

\* ActivityInfo.get_expected_drop_rate, its steps per action, without level bonus,
\* collectibles and consumable
get_expected_drop_rate(q) ==
    LET steps_with_efficiency == CeilDiv(100 * q.base_steps, 100 + q.work_efficiency)
        min_steps == CeilDiv(100 * q.base_steps, 100 + q.max_efficiency)
        steps_after_min == Max(steps_with_efficiency, min_steps)
        steps_with_pct == CeilDiv(steps_after_min * (100 + q.steps_percent), 100)
        steps_with_flat == steps_with_pct + q.steps_add
        steps_per_single_action == Max(steps_with_flat, MinSteps)
    IN [steps_per_single_action |-> 100 * steps_per_single_action,
        expected_steps_per_action |->
            CeilDiv(100 * steps_per_single_action, 100 + q.double_action)]

MetricsInit ==
    /\ STATS_CACHE = EmptyCache
    /\ edges = <<>>
    /\ thread_locals = <<>>
    /\ sessions = <<>>
    /\ gear_sets = <<>>
    /\ query = NoQuery
    /\ pc = "metrics"
    /\ character = NoCharacter
    /\ result = None
    /\ activity = None
    /\ alg = None
    /\ slot_idx = 0
    /\ gearset = EmptyGearset
    /\ current_keyword_counts = NoKeywords
    /\ needed_keywords = {}
    /\ best_item = None
    /\ current_value = 0
    /\ best_swap = <<>>
    /\ iteration = 0
    /\ improved = FALSE
    /\ max_iterations = 0
    /\ sorting_priority = <<>>
    /\ tool_slots = 0

MetricsUnchanged ==
    UNCHANGED <<edges, thread_locals, sessions, gear_sets,
                character, activity, slot_idx, gearset, current_keyword_counts,
                needed_keywords, best_item, current_value, best_swap, iteration, improved,
                max_iterations, sorting_priority, tool_slots, STATS_CACHE>>

CalculateActivityMetrics ==
    /\ pc = "metrics"
    /\ \E q \in MetricInputs :
          /\ query' = q
          /\ result' = calculate_activity_metrics(q)
    /\ alg' = "calculate_activity_metrics"
    /\ pc' = "measured"
    /\ MetricsUnchanged

CalculateCraftingMetrics ==
    /\ pc = "metrics"
    /\ \E q \in MetricInputs :
          /\ query' = q
          /\ result' = calculate_crafting_metrics(q)
    /\ alg' = "calculate_crafting_metrics"
    /\ pc' = "measured"
    /\ MetricsUnchanged

GetExpectedDropRate ==
    /\ pc = "metrics"
    /\ \E q \in MetricInputs :
          /\ query' = q
          /\ result' = get_expected_drop_rate(q)
    /\ alg' = "get_expected_drop_rate"
    /\ pc' = "measured"
    /\ MetricsUnchanged

MetricsNext ==
    \/ CalculateActivityMetrics
    \/ CalculateCraftingMetrics
    \/ GetExpectedDropRate

SpecMetrics == MetricsInit /\ [][MetricsNext]_vars

\* C17: whatever the base steps, the efficiency cap and the aggregated stats, the step cost
\* of one action is at least 10 steps before double action is applied, in the activity
\* metrics, the crafting metrics and the drop-rate calculation.
C17_StepCostAtLeastTen ==
    pc = "measured" => result.steps_per_single_action >= 100 * MinSteps

-----------------------------------------------------------------------------
(* calculate_quality_weights. A weight is held as a fraction num/den of twentieths      *)
(* (0.05 is 1/1), den > 0, so that the slope of a band is exact. The percentages the    *)
(* function derives from the weights are not modelled.                                  *)

MaxRecipeLevel == 50       \* largest recipe level
MaxQualityOutcome == 900   \* largest quality outcome

Qualities == <<"Normal", "Good", "Great", "Excellent", "Perfect", "Eternal">>

\* starting_weights, minimum_weights and band_starts, by the position of the quality
starting_weights == <<20000, 4000, 1000, 200, 50, 1>>

minimum_weights == <<80, 80, 80, 80, 40, 1>>

band_starts == <<0, 100, 200, 300, 400, 500>>

\* band_ends[quality] = (100 + recipe_level) * i
band_end(recipe_level, i) == (100 + recipe_level) * i

Whole(n) == [num |-> n, den |-> 1]

RatLeq(a, b) == a.num * b.den <= b.num * a.den

RatMax(a, b) == IF RatLeq(a, b) THEN b ELSE a

\* the weight of a quality from its own band: the starting weight up to the band start,
\* then starting_weight + slope * (quality_outcome - band_start), not below the minimum
BandWeight(recipe_level, quality_outcome, i) ==
    IF quality_outcome <= band_starts[i] THEN Whole(starting_weights[i])
    ELSE LET width == band_end(recipe_level, i) - band_starts[i]
         IN RatMax(Whole(minimum_weights[i]),
                   [num |-> starting_weights[i] * width
                              - (starting_weights[i] - minimum_weights[i])
                                    * (quality_outcome - band_starts[i]),
                    den |-> width])

\* a quality whose weight is left as its own band gives it
KeepBandWeight(new_weight, next_weight) == new_weight

\* new_weight = max(new_weight, calculated_weights[next_quality])
NeverRarerThanNext(new_weight, next_weight) == RatMax(new_weight, next_weight)

\* the loop over qualities from Eternal down to Normal; calculated holds the weights of
\* the qualities above i
RECURSIVE CalculatedWeights(_, _, _, _)
CalculatedWeights(recipe_level, quality_outcome, i, calculated) ==
    IF i = 0 THEN calculated
    ELSE LET band == BandWeight(recipe_level, quality_outcome, i)
             new_weight == IF i = Len(Qualities) THEN band
                           ELSE NeverRarerThanNext(band, calculated[i + 1])
         IN CalculatedWeights(recipe_level, quality_outcome, i - 1,
                              [k \in DOMAIN calculated \cup {i} |->
                                  IF k = i THEN new_weight ELSE calculated[k]])

calculate_quality_weights(recipe_level, quality_outcome) ==
    CalculatedWeights(recipe_level, quality_outcome, Len(Qualities), <<>>)

RecipeLevels == {1, 10, 25, MaxRecipeLevel}

QualityOutcomes == {q \in (0 - 25)..MaxQualityOutcome : q % 25 \in {0, 1}}

QualityInit ==
    /\ STATS_CACHE = EmptyCache
    /\ edges = <<>>
    /\ thread_locals = <<>>
    /\ sessions = <<>>
    /\ gear_sets = <<>>
    /\ query = NoQuery
    /\ pc = "quality"
    /\ character = NoCharacter
    /\ result = <<>>
    /\ activity = None
    /\ alg = None
    /\ slot_idx = 0
    /\ gearset = EmptyGearset
    /\ current_keyword_counts = NoKeywords
    /\ needed_keywords = {}
    /\ best_item = None
    /\ current_value = 0
    /\ best_swap = <<>>
    /\ iteration = 0
    /\ improved = FALSE
    /\ max_iterations = 0
    /\ sorting_priority = <<>>
    /\ tool_slots = 0

CalculateQualityWeights ==
    /\ pc = "quality"
    /\ \E recipe_level \in RecipeLevels, quality_outcome \in QualityOutcomes :
          /\ query' = [recipe_level |-> recipe_level, quality_outcome |-> quality_outcome]
          /\ result' = calculate_quality_weights(recipe_level, quality_outcome)
    /\ pc' = "weighted"
    /\ UNCHANGED <<edges, thread_locals, sessions, gear_sets,
                   character, activity, alg, slot_idx, gearset, current_keyword_counts,
                   needed_keywords, best_item, current_value, best_swap, iteration, improved,
                   max_iterations, sorting_priority, tool_slots, STATS_CACHE>>

QualityNext == CalculateQualityWeights

SpecQuality == QualityInit /\ [][QualityNext]_vars

\* C18: for every recipe level and quality outcome, the weight of each quality from Normal
\* to Perfect is at least the weight of the next rarer quality.
C18_WeightsNeverIncreaseWithRarity ==
    pc = "weighted" =>
        \A i \in 1..(Len(Qualities) - 1) : RatLeq(result[i + 1], result[i])

\* a quality outcome past the band of Normal and inside the band of Good: the band of
\* Normal alone gives its minimum weight, below the weight of Good
C18_Witness ==
    /\ pc = "weighted"
    /\ query.recipe_level = 10
    /\ query.quality_outcome = 125
    /\ BandWeight(10, 125, 1) = Whole(minimum_weights[1])
    /\ ~RatLeq(result[2], BandWeight(10, 125, 1))
    /\ result[1] = result[2]

-----------------------------------------------------------------------------
(* The gearset codec: encode_gearset, and Gearset._load_from_export with Item.by_uuid.  *)
(* An export string is held as the items array it carries: json.dumps, gzip and base64  *)
(* on one side and decode_gearset on the other are taken as inverse library calls.      *)

\* QUALITY_NAME_TO_EXPORT: the "(Quality)" of an item name to the quality of an export
QUALITY_NAME_TO_EXPORT ==
    [Normal |-> "common", Good |-> "uncommon", Great |-> "rare", Excellent |-> "epic",
     Perfect |-> "legendary", Eternal |-> "ethereal"]

\* quality_map of Item.by_uuid, to the quality property of a CraftedItem
quality_map ==
    [common |-> "Normal", uncommon |-> "Good", rare |-> "Great", epic |-> "Excellent",
     legendary |-> "Perfect", ethereal |-> "Eternal"]

\* the attributes of the Item class by their uuid: plain items, one CraftedItem and one
\* AchievementItem
uuid_map ==
    [h1 |-> [name |-> "HAT", kind |-> "ItemInstance"],
     g1 |-> [name |-> "RING", kind |-> "ItemInstance"],
     t1 |-> [name |-> "NET", kind |-> "ItemInstance"],
     c1 |-> [name |-> "ROBE", kind |-> "CraftedItem"],
     m1 |-> [name |-> "MEDAL", kind |-> "AchievementItem"]]

\* None in a slot
NoItem == [name |-> None, uuid |-> None, quality |-> None]

\* an ItemInstance a gearset holds: its name without the bracket, its uuid, and the
\* "(Quality)" its name ends with, None for a name without one
ItemInstance(uuid, quality) ==
    [name |-> uuid_map[uuid].name, uuid |-> uuid, quality |-> quality]

\* 'item': 'null'
NullItem == [id |-> "null", quality |-> "null"]

\* the quality encode_gearset reads off item.name
ExportQuality(item) ==
    IF item.quality \in DOMAIN QUALITY_NAME_TO_EXPORT
    THEN QUALITY_NAME_TO_EXPORT[item.quality] ELSE "common"

\* one entry of the items array
ExportEntry(slot_type, index, item) ==
    [type |-> slot_type, index |-> index,
     item |-> IF item = NoItem THEN NullItem
              ELSE [id |-> item.uuid, quality |-> ExportQuality(item)]]

\* slot_type_map, in its order
SlotTypes == SubSeq(GearSlots, 1, 10)

\* encode_gearset: the gear slots, ring1 and ring2 as ring 0 and 1, tool0..tool5
encode_gearset(gearset_dict) ==
    [k \in 1..Len(SlotTypes) |-> ExportEntry(SlotTypes[k], 0, gearset_dict[SlotTypes[k]])]
    \o <<ExportEntry("ring", 0, gearset_dict["ring1"]),
         ExportEntry("ring", 1, gearset_dict["ring2"])>>
    \o [k \in 1..Len(ToolSlotNames) |->
           ExportEntry("tool", k - 1, gearset_dict[ToolSlotNames[k]])]

\* a lookup that hands out the Normal tier of a crafted item whatever quality is asked
by_uuid_normal(uuid, quality) ==
    IF uuid \notin DOMAIN uuid_map THEN NoItem
    ELSE IF uuid_map[uuid].kind = "CraftedItem" THEN ItemInstance(uuid, "Normal")
    ELSE ItemInstance(uuid, None)

\* Item.by_uuid: None for an unknown uuid, the quality tier of a crafted item, the
\* instance at the global achievement points of an achievement item, else the item
by_uuid(uuid, quality) ==
    IF uuid \notin DOMAIN uuid_map THEN NoItem
    ELSE IF uuid_map[uuid].kind = "CraftedItem"
    THEN ItemInstance(uuid, IF quality \in DOMAIN quality_map THEN quality_map[quality]
                            ELSE "Normal")
    ELSE ItemInstance(uuid, None)

\* an assignment that reads the type of the entry and not its index
AssignSlotByType(loaded, slot_type, index, equipment_item) ==
    IF slot_type = "ring" THEN [loaded EXCEPT !["ring1"] = equipment_item]
    ELSE IF slot_type = "tool" THEN [loaded EXCEPT !["tool0"] = equipment_item]
    ELSE [loaded EXCEPT ![slot_type] = equipment_item]

\* the slot assignment of _load_from_export
AssignSlot(loaded, slot_type, index, equipment_item) ==
    IF slot_type = "ring"
    THEN IF index = 0 THEN [loaded EXCEPT !["ring1"] = equipment_item]
         ELSE IF index = 1 THEN [loaded EXCEPT !["ring2"] = equipment_item]
         ELSE loaded
    ELSE IF slot_type = "tool"
    THEN [loaded EXCEPT ![ToolSlotNames[index + 1]] = equipment_item]
    ELSE [loaded EXCEPT ![slot_type] = equipment_item]

\* the loop of _load_from_export over data['items']
RECURSIVE LoadItems(_, _, _)
LoadItems(items, i, loaded) ==
    IF i > Len(items) THEN loaded
    ELSE IF items[i].item = NullItem THEN LoadItems(items, i + 1, loaded)
    ELSE LoadItems(items, i + 1,
                   AssignSlot(loaded, items[i].type, items[i].index,
                              by_uuid(items[i].item.id, items[i].item.quality)))

\* Gearset(export_string): every slot None, then _load_from_export
load_from_export(items) == LoadItems(items, 1, [sl \in AllSlots |-> NoItem])

\* the gearset dicts a caller encodes: a plain item or an achievement item on the head,
\* every tier of the crafted item on the chest, rings and tools
CodecGearsets ==
    {[sl \in AllSlots |->
         CASE sl = "head" -> g[1]
           [] sl = "chest" -> g[2]
           [] sl = "ring1" -> g[3]
           [] sl = "ring2" -> g[4]
           [] sl = "tool0" -> g[5]
           [] sl = "tool5" -> g[6]
           [] OTHER -> NoItem] :
       g \in {NoItem, ItemInstance("h1", None), ItemInstance("m1", None)}
             \X ({NoItem} \cup {ItemInstance("c1", q) : q \in Range(Qualities)})
             \X {NoItem, ItemInstance("g1", None), ItemInstance("c1", "Great")}
             \X {NoItem, ItemInstance("g1", None)}
             \X {NoItem, ItemInstance("t1", None)}
             \X {NoItem, ItemInstance("t1", None), ItemInstance("c1", "Perfect")}}

\* an export whose entry k carries a uuid the Item class does not hold
WithUnknownUuid(items, k) ==
    [items EXCEPT ![k].item.id = "zz"]

CodecInit ==
    /\ STATS_CACHE = EmptyCache
    /\ edges = <<>>
    /\ thread_locals = <<>>
    /\ sessions = <<>>
    /\ gear_sets = <<>>
    /\ query = NoQuery
    /\ pc = "codec"
    /\ character = NoCharacter
    /\ result = <<>>
    /\ activity = None
    /\ alg = None
    /\ slot_idx = 0
    /\ gearset = EmptyGearset
    /\ current_keyword_counts = NoKeywords
    /\ needed_keywords = {}
    /\ best_item = None
    /\ current_value = 0
    /\ best_swap = <<>>
    /\ iteration = 0
    /\ improved = FALSE
    /\ max_iterations = 0
    /\ sorting_priority = <<>>
    /\ tool_slots = 0

CodecUnchanged ==
    UNCHANGED <<edges, thread_locals, sessions, gear_sets,
                character, activity, gearset, current_keyword_counts,
                needed_keywords, best_item, current_value, best_swap, iteration, improved,
                max_iterations, sorting_priority, tool_slots, STATS_CACHE>>

\* Gearset(encode_gearset(gearset_dict))
EncodeAndLoad ==
    /\ pc = "codec"
    /\ \E gearset_dict \in CodecGearsets :
          \E export \in {encode_gearset(gearset_dict)} :
              /\ query' = [gearset_dict |-> gearset_dict, items |-> export]
              /\ result' = load_from_export(export)
    /\ alg' = "encode_gearset"
    /\ slot_idx' = 0
    /\ pc' = "loaded"
    /\ CodecUnchanged

\* Gearset(export_string) for an export one of whose entries names an unknown uuid;
\* slot_idx is the position of that entry
LoadFromExport ==
    /\ pc = "codec"
    /\ \E gearset_dict \in CodecGearsets :
          \E export \in {encode_gearset(gearset_dict)} :
              \E k \in 1..Len(export) :
                  /\ export[k].item # NullItem
                  /\ query' = [gearset_dict |-> gearset_dict,
                               items |-> WithUnknownUuid(export, k)]
                  /\ result' = load_from_export(WithUnknownUuid(export, k))
                  /\ slot_idx' = k
    /\ alg' = "load_from_export"
    /\ pc' = "loaded"
    /\ CodecUnchanged

CodecNext ==
    \/ EncodeAndLoad
    \/ LoadFromExport

SpecCodec == CodecInit /\ [][CodecNext]_vars

\* the slot an entry of an export names by its type and index
SlotOfEntry(entry) ==
    IF entry.type = "ring" THEN <<"ring1", "ring2">>[entry.index + 1]
    ELSE IF entry.type = "tool" THEN ToolSlotNames[entry.index + 1]
    ELSE entry.type

\* C19: loading the export encode_gearset produces for a gearset dict gives, in every
\* slot, an item of the same uuid and quality tier as the dict holds there, and leaves
\* every empty slot of the dict empty.
C19_EncodeLoadRoundTrip ==
    (pc = "loaded" /\ alg = "encode_gearset") =>
        \A sl \in AllSlots :
            /\ result[sl].uuid = query.gearset_dict[sl].uuid
            /\ result[sl].quality = query.gearset_dict[sl].quality
            /\ query.gearset_dict[sl] = NoItem <=> result[sl] = NoItem

C19_Witness ==
    /\ pc = "loaded"
    /\ alg = "encode_gearset"
    /\ query.gearset_dict["head"] = ItemInstance("m1", None)
    /\ query.gearset_dict["chest"] = ItemInstance("c1", "Eternal")
    /\ query.gearset_dict["ring2"] = ItemInstance("g1", None)
    /\ query.gearset_dict["tool5"] = ItemInstance("c1", "Perfect")
    /\ query.items[4].item = [id |-> "c1", quality |-> "ethereal"]
    /\ result["chest"] = ItemInstance("c1", "Eternal")
    /\ result["tool5"] = ItemInstance("c1", "Perfect")
    /\ result["ring1"] = NoItem

\* C20: loading a well-formed export one of whose entries names a uuid of no known item
\* ends with that entry's slot empty and with every other entry's item in the slot its
\* type and index name.
C20_UnknownUuidLeavesSlotEmpty ==
    (pc = "loaded" /\ alg = "load_from_export") =>
        \A k \in 1..Len(query.items) :
            result[SlotOfEntry(query.items[k])] =
                IF k = slot_idx \/ query.items[k].item = NullItem THEN NoItem
                ELSE by_uuid(query.items[k].item.id, query.items[k].item.quality)

C20_Witness ==
    /\ pc = "loaded"
    /\ alg = "load_from_export"
    /\ slot_idx = 12
    /\ query.items[12].item.id = "zz"
    /\ result["ring2"] = NoItem
    /\ result["ring1"] = ItemInstance("c1", "Great")
    /\ result["tool0"] = ItemInstance("t1", None)
    /\ result["tool5"] = ItemInstance("t1", None)

-----------------------------------------------------------------------------
(* travel_locations_optimizer: Graph._build, Graph.dijkstra and Graph.find_tour.        *)
(* A node of the graph is the name of a location (a string). The steps of a route in    *)
(* each direction are what calc_steps gave for the gear select_gear chose.              *)

MaxDests == 2          \* largest number of destinations of a tour

\* float('inf')
Infinity == 1000000

\* Location.KALLAHEIM.name, a node of the graph
HomeName == "Kallaheim"

\* RING_TELEPORT_TARGET = Location.KALLAHEIM: the LocationInfo object, which has no
\* __eq__ or __hash__ of its own and so equals no string and is a dict key of its own
RING_TELEPORT_TARGET == "LocationInfo(Kallaheim)"

\* the location names, in the order Python compares strings
NodeOrder == <<"Everhaven", "Granfiddich", "Kallaheim", RING_TELEPORT_TARGET, "Trellin",
               "Vastalume">>

LocationNames == {"Everhaven", "Granfiddich", "Kallaheim", "Trellin", "Vastalume"}

\* RAW_ROUTES with the steps of both directions: one map of two parts that no route
\* joins, one map in one piece
RawRoutes ==
    << << [a |-> "Kallaheim", b |-> "Everhaven", steps_ab |-> 30, steps_ba |-> 40],
          [a |-> "Everhaven", b |-> "Granfiddich", steps_ab |-> 20, steps_ba |-> 20],
          [a |-> "Kallaheim", b |-> "Granfiddich", steps_ab |-> 70, steps_ba |-> 45],
          [a |-> "Trellin", b |-> "Vastalume", steps_ab |-> 15, steps_ba |-> 25] >>,
       << [a |-> "Kallaheim", b |-> "Everhaven", steps_ab |-> 30, steps_ba |-> 40],
          [a |-> "Everhaven", b |-> "Granfiddich", steps_ab |-> 20, steps_ba |-> 20],
          [a |-> "Granfiddich", b |-> "Trellin", steps_ab |-> 25, steps_ba |-> 35],
          [a |-> "Trellin", b |-> "Vastalume", steps_ab |-> 15, steps_ba |-> 25],
          [a |-> "Kallaheim", b |-> "Vastalume", steps_ab |-> 90, steps_ba |-> 80] >> >>

\* SHORTCUTS of my_config: none, or an unlocked and a locked one
Shortcuts ==
    << <<>>,
       << [a |-> "Granfiddich", b |-> "Kallaheim", name |-> "Boat", unlocked |-> TRUE,
           steps |-> 10],
          [a |-> "Everhaven", b |-> "Trellin", name |-> "Tunnel", unlocked |-> FALSE,
           steps |-> 5] >> >>

NoEdges == [v \in {} |-> [steps |-> 0, gear |-> None]]

\* if a not in self.edges: self.edges[a] = {}
WithNode(e, a) == IF a \in DOMAIN e THEN e ELSE [n \in DOMAIN e \cup {a} |->
                                                     IF n = a THEN NoEdges ELSE e[n]]

\* self.edges[a][b] = data, for a node a of self.edges
SetEdge(e, a, b, data) ==
    [n \in DOMAIN e |->
        IF n = a THEN [v \in DOMAIN e[a] \cup {b} |-> IF v = b THEN data ELSE e[a][v]]
        ELSE e[n]]

\* the loop of _build over RAW_ROUTES: an edge in each direction
RECURSIVE AddRoutes(_, _, _)
AddRoutes(routes, i, e) ==
    IF i > Len(routes) THEN e
    ELSE LET r == routes[i]
             with_nodes == WithNode(WithNode(e, r.a), r.b)
         IN AddRoutes(routes, i + 1,
                SetEdge(SetEdge(with_nodes, r.a, r.b, [steps |-> r.steps_ab, gear |-> "GDTE"]),
                        r.b, r.a, [steps |-> r.steps_ba, gear |-> "GDTE"]))

\* the loop of _build over SHORTCUTS: an unlocked shortcut, where shorter than the route
RECURSIVE AddShortcuts(_, _, _)
AddShortcuts(shortcuts, i, e) ==
    IF i > Len(shortcuts) THEN e
    ELSE LET s == shortcuts[i]
             with_node == WithNode(e, s.a)
         IN AddShortcuts(shortcuts, i + 1,
                IF s.unlocked /\ (s.b \notin DOMAIN with_node[s.a]
                                      \/ s.steps < with_node[s.a][s.b].steps)
                THEN SetEdge(with_node, s.a, s.b, [steps |-> s.steps, gear |-> s.name])
                ELSE IF s.unlocked THEN with_node ELSE e)

\* the ring edges of _build: for every key loc of self.edges with
\* loc != RING_TELEPORT_TARGET, self.edges[loc][RING_TELEPORT_TARGET] = the ring edge
AddRing(e, enable_ring) ==
    IF ~enable_ring THEN e
    ELSE [loc \in DOMAIN e |->
             IF loc # RING_TELEPORT_TARGET
             THEN [v \in DOMAIN e[loc] \cup {RING_TELEPORT_TARGET} |->
                      IF v = RING_TELEPORT_TARGET THEN [steps |-> 0, gear |-> "Ring"]
                      ELSE e[loc][v]]
             ELSE e[loc]]

\* Graph(enable_ring): _build
Build(routes, shortcuts, enable_ring) ==
    AddRing(AddShortcuts(shortcuts, 1, AddRoutes(routes, 1, <<>>)), enable_ring)

NodeRank(n) == CHOOSE k \in 1..Len(NodeOrder) : NodeOrder[k] = n

\* heapq.heappop(pq): the least (d, u), by d and then by u
HeapMin(pq) ==
    CHOOSE m \in pq : \A o \in pq :
        m[1] < o[1] \/ (m[1] = o[1] /\ NodeRank(m[2]) <= NodeRank(o[2]))

\* dist.get(v, float('inf'))
DistGet(dist, v) == IF v \in DOMAIN dist THEN dist[v] ELSE Infinity

\* the while loop of dijkstra; ends with dist and prev
RECURSIVE DijkstraLoop(_, _, _, _, _)
DijkstraLoop(e, end, dist, prev, pq) ==
    IF pq = {} THEN [dist |-> dist, prev |-> prev]
    ELSE LET m == HeapMin(pq)
             d == m[1]
             u == m[2]
             rest == pq \ {m}
         IN IF u = end THEN [dist |-> dist, prev |-> prev]
            ELSE IF d > DistGet(dist, u) THEN DijkstraLoop(e, end, dist, prev, rest)
            ELSE LET out == IF u \in DOMAIN e THEN e[u] ELSE NoEdges
                     closer == {v \in DOMAIN out : d + out[v].steps < DistGet(dist, v)}
                 IN DijkstraLoop(e, end,
                        [v \in DOMAIN dist \cup closer |->
                            IF v \in closer THEN d + out[v].steps ELSE dist[v]],
                        [v \in DOMAIN prev \cup closer |->
                            IF v \in closer THEN u ELSE prev[v]],
                        rest \cup {<<d + out[v].steps, v>> : v \in closer})

\* while u in prev: path.append(u); u = prev[u], then path.append(start), reversed
RECURSIVE PathBack(_, _, _)
PathBack(prev, u, start) ==
    IF u \in DOMAIN prev THEN Append(PathBack(prev, prev[u], start), u) ELSE <<start>>

\* Graph.dijkstra
dijkstra(e, start, end) ==
    IF start \notin DOMAIN e \/ end \notin DOMAIN e THEN [path |-> <<>>, cost |-> Infinity]
    ELSE LET r == DijkstraLoop(e, end, [v \in {start} |-> 0], <<>>, {<<0, start>>})
         IN IF end \notin DOMAIN r.prev THEN [path |-> <<>>, cost |-> Infinity]
            ELSE [path |-> PathBack(r.prev, end, start), cost |-> r.dist[end]]

\* the ring uses of a path: its edges whose gear is 'Ring'
RingUses(e, path) ==
    Cardinality({j \in 1..(Len(path) - 1) : e[path[j]][path[j + 1]].gear = "Ring"})

\* itertools.permutations(seq), in its order
RECURSIVE permutations(_)
permutations(seq) ==
    IF Len(seq) = 0 THEN << <<>> >>
    ELSE LET without(i) == SubSeq(seq, 1, i - 1) \o SubSeq(seq, i + 1, Len(seq))
             RECURSIVE from(_)
             from(i) == IF i > Len(seq) THEN <<>>
                        ELSE LET tails == permutations(without(i))
                             IN [k \in 1..Len(tails) |-> <<seq[i]>> \o tails[k]] \o from(i + 1)
         IN from(1)

\* the body of find_tour's loop over a permutation, for destinations without a service
\* prefix: the legs to each destination in turn
RECURSIVE VisitInOrder(_, _, _, _)
VisitInOrder(e, perm, i, tour) ==
    IF i > Len(perm) THEN tour
    ELSE LET leg == dijkstra(e, tour.route[Len(tour.route)], perm[i])
         IN IF leg.cost = Infinity THEN [tour EXCEPT !.valid = FALSE]
            ELSE VisitInOrder(e, perm, i + 1,
                     [route |-> tour.route \o Tail(leg.path),
                      total |-> tour.total + leg.cost,
                      ring_uses |-> tour.ring_uses + RingUses(e, leg.path),
                      valid |-> TRUE])

\* if end and route[-1] != end: the leg to the end location
GoToEnd(e, tour, end) ==
    IF ~tour.valid \/ end = None \/ tour.route[Len(tour.route)] = end THEN tour
    ELSE LET leg == dijkstra(e, tour.route[Len(tour.route)], end)
         IN IF leg.cost = Infinity THEN [tour EXCEPT !.valid = FALSE]
            ELSE [route |-> tour.route \o Tail(leg.path),
                  total |-> tour.total + leg.cost,
                  ring_uses |-> tour.ring_uses + RingUses(e, leg.path),
                  valid |-> TRUE]

\* the loop of find_tour over the permutations: the first valid tour of the least total
RECURSIVE BestTour(_, _, _, _, _, _)
BestTour(e, start, perms, k, end, best) ==
    IF k > Len(perms) THEN best
    ELSE LET tour == GoToEnd(e, VisitInOrder(e, perms[k], 1,
                                 [route |-> <<start>>, total |-> 0, ring_uses |-> 0,
                                  valid |-> TRUE]), end)
         IN BestTour(e, start, perms, k + 1, end,
                IF tour.valid /\ tour.total < best.steps
                THEN [route |-> tour.route, steps |-> tour.total,
                      ring_uses |-> tour.ring_uses]
                ELSE best)

\* Graph.find_tour: (best_route or [start], best_steps, best_rings)
find_tour(e, start, dests, end) ==
    LET best == BestTour(e, start, permutations(dests), 1, end,
                         [route |-> <<>>, steps |-> Infinity, ring_uses |-> 0])
    IN [best EXCEPT !.route = IF best.route = <<>> THEN <<start>> ELSE best.route]

\* the least cost of a walk of at most k edges from a to b (none: Infinity)
RECURSIVE LeastCost(_, _, _, _)
LeastCost(e, a, b, k) ==
    IF a = b THEN 0
    ELSE IF k = 0 \/ a \notin DOMAIN e THEN Infinity
    ELSE LET via == {Min(Infinity, e[a][v].steps + LeastCost(e, v, b, k - 1)) : v \in DOMAIN e[a]}
         IN IF via = {} THEN Infinity ELSE CHOOSE c \in via : \A o \in via : c <= o

\* the cost of the cheapest way from a to b
Distance(e, a, b) == LeastCost(e, a, b, Cardinality(DOMAIN e))

\* path is a walk along the edges
IsWalk(e, path) ==
    \A j \in 1..(Len(path) - 1) : path[j] \in DOMAIN e /\ path[j + 1] \in DOMAIN e[path[j]]

\* the sum of the steps of the edges of a walk
RECURSIVE WalkSteps(_, _)
WalkSteps(e, path) ==
    IF Len(path) < 2 THEN 0
    ELSE e[path[1]][path[2]].steps + WalkSteps(e, Tail(path))

\* the cost of visiting the destinations in the order of perm, then the end location
RECURSIVE OrderCost(_, _, _, _)
OrderCost(e, at, perm, end) ==
    IF Len(perm) = 0 THEN (IF end = None THEN 0 ELSE Distance(e, at, end))
    ELSE Min(Infinity, Distance(e, at, perm[1]) + OrderCost(e, perm[1], Tail(perm), end))

\* the cost of the cheapest visiting order
BestOrderCost(e, start, dests, end) ==
    LET perms == permutations(dests)
        costs == {OrderCost(e, start, perms[k], end) : k \in 1..Len(perms)}
    IN CHOOSE c \in costs : \A o \in costs : c <= o

\* every variable of the gear optimizers at rest
OptimizerIdle ==
    /\ STATS_CACHE = EmptyCache
    /\ character = NoCharacter
    /\ activity = None
    /\ alg = None
    /\ slot_idx = 0
    /\ gearset = EmptyGearset
    /\ current_keyword_counts = NoKeywords
    /\ needed_keywords = {}
    /\ best_item = None
    /\ current_value = 0
    /\ best_swap = <<>>
    /\ iteration = 0
    /\ improved = FALSE
    /\ max_iterations = 0
    /\ sorting_priority = <<>>
    /\ tool_slots = 0

OptimizerUnchanged ==
    UNCHANGED <<STATS_CACHE, character, activity, alg, slot_idx, gearset,
                current_keyword_counts, needed_keywords, best_item, current_value,
                best_swap, iteration, improved, max_iterations, sorting_priority,
                tool_slots>>

\* the arguments of the calls: a location, or a name that is no node
TravelNames == LocationNames \cup {"Nowhere"}

DestinationLists ==
    UNION {[1..n -> {"Everhaven", "Kallaheim", "Trellin"}] : n \in 1..MaxDests}

\* Graph(enable_ring) has run _build
TravelInit ==
    /\ OptimizerIdle
    /\ \E r \in 1..Len(RawRoutes), s \in 1..Len(Shortcuts), enable_ring \in BOOLEAN :
          /\ edges = Build(RawRoutes[r], Shortcuts[s], enable_ring)
          /\ query = [op |-> "Graph", enable_ring |-> enable_ring]
    /\ thread_locals = <<>>
    /\ sessions = <<>>
    /\ gear_sets = <<>>
    /\ pc = "travel"
    /\ result = <<>>

\* graph.dijkstra(start, end)
Dijkstra ==
    /\ pc = "travel"
    /\ \E start \in TravelNames, end \in TravelNames :
          /\ query' = [op |-> "dijkstra", enable_ring |-> query.enable_ring,
                       start |-> start, end |-> end]
          /\ result' = dijkstra(edges, start, end)
    /\ pc' = "routed"
    /\ UNCHANGED <<edges, thread_locals, sessions, gear_sets>>
    /\ OptimizerUnchanged

\* graph.find_tour(start, dests, end)
FindTour ==
    /\ pc = "travel"
    /\ \E start \in LocationNames, dests \in DestinationLists,
          end \in {None, "Kallaheim", "Vastalume"} :
          /\ query' = [op |-> "find_tour", enable_ring |-> query.enable_ring,
                       start |-> start, dests |-> dests, end |-> end]
          /\ result' = find_tour(edges, start, dests, end)
    /\ pc' = "routed"
    /\ UNCHANGED <<edges, thread_locals, sessions, gear_sets>>
    /\ OptimizerUnchanged

TravelNext == Dijkstra \/ FindTour

SpecTravel == TravelInit /\ [][TravelNext]_vars

\* C21: for a start and an end that are nodes of the graph, the end reachable from the
\* start (the start itself included), dijkstra returns a walk from the start to the end
\* along the edges whose steps sum to the least possible cost; only for an unreachable
\* end does it return the empty path and the infinite cost.
C21_DijkstraShortestPath ==
    (pc = "routed" /\ query.op = "dijkstra"
        /\ query.start \in DOMAIN edges /\ query.end \in DOMAIN edges) =>
        \E least \in {Distance(edges, query.start, query.end)} :
            IF least < Infinity
            THEN /\ result.cost = least
                 /\ Len(result.path) >= 1
                 /\ result.path[1] = query.start
                 /\ result.path[Len(result.path)] = query.end
                 /\ IsWalk(edges, result.path)
                 /\ WalkSteps(edges, result.path) = least
            ELSE result = [path |-> <<>>, cost |-> Infinity]

\* C21 for an end that is another node than the start
C21_DistinctEndsShortest ==
    (pc = "routed" /\ query.op = "dijkstra" /\ query.start # query.end
        /\ query.start \in DOMAIN edges /\ query.end \in DOMAIN edges) =>
        \E least \in {Distance(edges, query.start, query.end)} :
            IF least < Infinity
            THEN /\ result.cost = least
                 /\ Len(result.path) >= 2
                 /\ result.path[1] = query.start
                 /\ result.path[Len(result.path)] = query.end
                 /\ IsWalk(edges, result.path)
                 /\ WalkSteps(edges, result.path) = least
            ELSE result = [path |-> <<>>, cost |-> Infinity]

\* C22: with the ring enabled every location node other than the home location has an
\* edge to the home node of 0 steps and gear 'Ring', so that the way home costs 0 steps
\* from anywhere; with the ring disabled the graph has no such edge.
C22_RingTeleportsHome ==
    IF query.enable_ring
    THEN \A loc \in (DOMAIN edges \cap LocationNames) \ {HomeName} :
            /\ HomeName \in DOMAIN edges[loc]
            /\ edges[loc][HomeName].steps = 0
            /\ edges[loc][HomeName].gear = "Ring"
            /\ dijkstra(edges, loc, HomeName).cost = 0
    ELSE \A loc \in DOMAIN edges : \A v \in DOMAIN edges[loc] : edges[loc][v].gear # "Ring"

\* the destinations of the call can be visited in any order from the start, and the end
\* location reached from each
AllReachable ==
    LET stops == {query.start} \cup Range(query.dests)
                     \cup (IF query.end = None THEN {} ELSE {query.end})
    IN \A a \in stops, b \in stops : Distance(edges, a, b) < Infinity

\* C23: find_tour returns a route that starts at the start, contains every destination
\* and ends at the end location if one is given; the total it reports is the sum of the
\* steps of the route's edges and is the least over the visiting orders; it is finite
\* when the destinations are reachable from one another.
C23_TourIsMinimal ==
    (pc = "routed" /\ query.op = "find_tour" /\ AllReachable) =>
        /\ result.steps < Infinity
        /\ result.route[1] = query.start
        /\ Range(query.dests) \subseteq Range(result.route)
        /\ (query.end # None => result.route[Len(result.route)] = query.end)
        /\ IsWalk(edges, result.route)
        /\ result.steps = WalkSteps(edges, result.route)
        /\ result.steps = BestOrderCost(edges, query.start, query.dests, query.end)

-----------------------------------------------------------------------------
(* walkscape_globals: the values Character.__init__ leaves for the item classes, kept   *)
(* in threading.local(). Each thread runs Character.__init__ one setter at a time and   *)
(* reads the values in between; the threads interleave freely.                          *)

MaxPoints == 1         \* largest achievement points and total skill level of a character

Threads == {"MainThread", "Thread-1"}

DEFAULT_ACHIEVEMENT_POINTS == 0

DEFAULT_TOTAL_SKILL_LEVEL == 0

DEFAULT_CUSTOM_STATS == [toggle \in {} |-> TRUE]

\* data.get('custom_stats', None) of an export without custom stats
NoCustomStats == [not_set_by_ui |-> TRUE]

NoAttributes == [name \in {} |-> 0]

WithAttribute(attrs, name, value) ==
    [n \in DOMAIN attrs \cup {name} |-> IF n = name THEN value ELSE attrs[n]]

\* an attribute kept in one place for all threads
setattr_shared(locals, thread, name, value) ==
    [t \in DOMAIN locals |-> WithAttribute(locals[t], name, value)]

\* _thread_locals.name = value, run by thread: threading.local() keeps the attribute
\* of each thread apart
setattr(locals, thread, name, value) ==
    [t \in DOMAIN locals |->
        IF t = thread THEN WithAttribute(locals[t], name, value) ELSE locals[t]]

\* getattr(_thread_locals, name, default), run by thread
getattr(locals, thread, name, default) ==
    IF name \in DOMAIN locals[thread] THEN locals[thread][name] ELSE default

\* what the three getters return to a thread
get_achievement_points(locals, thread) ==
    getattr(locals, thread, "achievement_points", DEFAULT_ACHIEVEMENT_POINTS)

get_total_skill_level(locals, thread) ==
    getattr(locals, thread, "total_skill_level", DEFAULT_TOTAL_SKILL_LEVEL)

get_custom_stats(locals, thread) ==
    getattr(locals, thread, "custom_stats", DEFAULT_CUSTOM_STATS)

\* the character exports: achievement points, custom stats (or none), and the total of
\* the skill levels
CharacterData ==
    [achievement_points : 0..MaxPoints,
     custom_stats : {NoCustomStats, DEFAULT_CUSTOM_STATS, [skate_skiing |-> TRUE]},
     total_skill_level : 0..MaxPoints]

GlobalsInit ==
    /\ STATS_CACHE = EmptyCache
    /\ edges = <<>>
    /\ thread_locals = [t \in Threads |-> NoAttributes]
    /\ sessions = <<>>
    /\ gear_sets = <<>>
    /\ query = NoQuery
    /\ pc = [t \in Threads |-> "idle"]
    /\ character = [t \in Threads |-> NoCharacter]
    /\ result = <<>>
    /\ activity = None
    /\ alg = None
    /\ slot_idx = 0
    /\ gearset = EmptyGearset
    /\ current_keyword_counts = NoKeywords
    /\ needed_keywords = {}
    /\ best_item = None
    /\ current_value = 0
    /\ best_swap = <<>>
    /\ iteration = 0
    /\ improved = FALSE
    /\ max_iterations = 0
    /\ sorting_priority = <<>>
    /\ tool_slots = 0

GlobalsUnchanged ==
    UNCHANGED <<edges, sessions, gear_sets, STATS_CACHE, activity, alg, slot_idx, gearset,
                current_keyword_counts, needed_keywords, best_item, current_value,
                best_swap, iteration, improved, max_iterations, sorting_priority,
                tool_slots>>

\* Character.__init__ up to walkscape_globals.set_achievement_points
CharacterSetAchievementPoints ==
    /\ \E thread \in Threads, data \in CharacterData :
          /\ pc[thread] = "idle"
          /\ thread_locals' = setattr(thread_locals, thread, "achievement_points",
                                      data.achievement_points)
          /\ character' = [t \in Threads |-> IF t = thread THEN data ELSE character[t]]
          /\ pc' = [t \in Threads |-> IF t = thread THEN "custom_stats" ELSE pc[t]]
          /\ query' = [op |-> "set_achievement_points", thread |-> thread]
    /\ result' = <<>>
    /\ GlobalsUnchanged

\* Character.__init__: set_custom_stats, only if custom_stats is not None
CharacterSetCustomStats ==
    /\ \E thread \in Threads :
          /\ pc[thread] = "custom_stats"
          /\ thread_locals' =
                IF character[thread].custom_stats # NoCustomStats
                THEN setattr(thread_locals, thread, "custom_stats",
                             character[thread].custom_stats)
                ELSE thread_locals
          /\ pc' = [t \in Threads |-> IF t = thread THEN "total_skill_level" ELSE pc[t]]
          /\ query' = [op |-> "set_custom_stats", thread |-> thread]
    /\ result' = <<>>
    /\ UNCHANGED character
    /\ GlobalsUnchanged

\* Character.__init__: set_total_skill_level, and the rest of the constructor
CharacterSetTotalSkillLevel ==
    /\ \E thread \in Threads :
          /\ pc[thread] = "total_skill_level"
          /\ thread_locals' = setattr(thread_locals, thread, "total_skill_level",
                                      character[thread].total_skill_level)
          /\ character' = [t \in Threads |-> IF t = thread THEN NoCharacter ELSE character[t]]
          /\ pc' = [t \in Threads |-> IF t = thread THEN "idle" ELSE pc[t]]
          /\ query' = [op |-> "set_total_skill_level", thread |-> thread]
    /\ result' = <<>>
    /\ GlobalsUnchanged

\* get_achievement_points(), by a thread between two characters
GetAchievementPoints ==
    /\ \E thread \in Threads :
          /\ pc[thread] = "idle"
          /\ query' = [op |-> "get_achievement_points", thread |-> thread]
          /\ result' = get_achievement_points(thread_locals, thread)
    /\ UNCHANGED <<thread_locals, pc, character>>
    /\ GlobalsUnchanged

\* get_total_skill_level()
GetTotalSkillLevel ==
    /\ \E thread \in Threads :
          /\ pc[thread] = "idle"
          /\ query' = [op |-> "get_total_skill_level", thread |-> thread]
          /\ result' = get_total_skill_level(thread_locals, thread)
    /\ UNCHANGED <<thread_locals, pc, character>>
    /\ GlobalsUnchanged

\* get_custom_stats()
GetCustomStats ==
    /\ \E thread \in Threads :
          /\ pc[thread] = "idle"
          /\ query' = [op |-> "get_custom_stats", thread |-> thread]
          /\ result' = get_custom_stats(thread_locals, thread)
    /\ UNCHANGED <<thread_locals, pc, character>>
    /\ GlobalsUnchanged

GlobalsNext ==
    \/ CharacterSetAchievementPoints
    \/ CharacterSetCustomStats
    \/ CharacterSetTotalSkillLevel
    \/ GetAchievementPoints
    \/ GetTotalSkillLevel
    \/ GetCustomStats

SpecGlobals == GlobalsInit /\ [][GlobalsNext]_vars

\* the three values as a thread reads them
Observed(locals, thread) ==
    <<get_achievement_points(locals, thread), get_total_skill_level(locals, thread),
      get_custom_stats(locals, thread)>>

\* C25: under every interleaving of the threads, a step of one thread leaves the
\* achievement points, the total skill level and the custom stats every other thread
\* reads as they were, so that no thread ever reads a value another thread set; a thread
\* that has set nothing reads the defaults 0, 0 and {}.
C25_ThreadsIsolated ==
    [][\A other \in Threads \ {query'.thread} :
          /\ Observed(thread_locals', other) = Observed(thread_locals, other)
          /\ (thread_locals[other] = NoAttributes =>
                 Observed(thread_locals', other)
                     = <<DEFAULT_ACHIEVEMENT_POINTS, DEFAULT_TOTAL_SKILL_LEVEL,
                         DEFAULT_CUSTOM_STATS>>)]_vars

\* a thread that has set nothing reads the default achievement points after the other
\* thread has loaded a character with other points, stats and levels
C25_Witness ==
    /\ query = [op |-> "get_achievement_points", thread |-> "Thread-1"]
    /\ result = DEFAULT_ACHIEVEMENT_POINTS
    /\ thread_locals["Thread-1"] = NoAttributes
    /\ get_achievement_points(thread_locals, "MainThread") = 1
    /\ get_total_skill_level(thread_locals, "MainThread") = 1
    /\ get_custom_stats(thread_locals, "MainThread") = [skate_skiing |-> TRUE]

-----------------------------------------------------------------------------
(* ui/database: the gear_sets table of DatabaseManager. A row is kept under its id      *)
(* (PRIMARY KEY) with its session_uuid, name and slots_json; a statement that would     *)
(* break UNIQUE(session_uuid, name) raises sqlite3.IntegrityError and changes nothing.  *)

MaxGearSets == 3       \* most rows of the gear_sets table

SessionUuids == {"session-1", "session-2"}

GearSetIds == {"id-" \o ToString(n) : n \in 1..MaxGearSets}

GearSetNames == {"", "Mining", "Travel"}

SlotsJsons == {"{}", "{head}"}

NoRows == [id \in {} |-> [session_uuid |-> None, name |-> None, slots_json |-> None]]

\* what a call gave: the table after it, the exception it raised (None: none) and the
\* id of the row it returned (None: no row)
Outcome(table, raised, returned) == [table |-> table, raised |-> raised, returned |-> returned]

\* get_gear_set: the rows WHERE id = ? AND session_uuid = ?
get_gear_set(table, session_uuid, gear_set_id) ==
    {id \in DOMAIN table : id = gear_set_id /\ table[id].session_uuid = session_uuid}

\* get_gear_set_by_name: the rows WHERE session_uuid = ? AND name = ?
get_gear_set_by_name(table, session_uuid, name) ==
    {id \in DOMAIN table : table[id].session_uuid = session_uuid /\ table[id].name = name}

\* UNIQUE(session_uuid, name) of _init_db_with_conn
UniqueSessionName(table) ==
    \A a \in DOMAIN table, b \in DOMAIN table :
        (a # b /\ table[a].session_uuid = table[b].session_uuid)
            => table[a].name # table[b].name

\* create_gear_set with the id uuid4 gave
create_gear_set(table, session_uuid, name, slots_json, gear_set_id) ==
    IF get_gear_set_by_name(table, session_uuid, name) # {}
    THEN Outcome(table, "ValueError", None)
    ELSE LET inserted == [id \in DOMAIN table \cup {gear_set_id} |->
                             IF id = gear_set_id
                             THEN [session_uuid |-> session_uuid, name |-> name,
                                   slots_json |-> slots_json]
                             ELSE table[id]]
         IN IF UniqueSessionName(inserted)
            THEN Outcome(inserted, None, gear_set_id)
            ELSE Outcome(table, "sqlite3.IntegrityError", None)

\* update_gear_set; name and slots_json are None when not given
update_gear_set(table, session_uuid, gear_set_id, name, slots_json) ==
    IF get_gear_set(table, session_uuid, gear_set_id) = {}
    THEN Outcome(table, None, None)
    ELSE IF name # None /\ name # "" /\ name # table[gear_set_id].name
            /\ get_gear_set_by_name(table, session_uuid, name) # {}
    THEN Outcome(table, "ValueError", None)
    ELSE LET updated == [id \in DOMAIN table |->
                            IF id = gear_set_id
                            THEN [session_uuid |-> table[id].session_uuid,
                                  name |-> IF name # None THEN name ELSE table[id].name,
                                  slots_json |-> IF slots_json # None THEN slots_json
                                                 ELSE table[id].slots_json]
                            ELSE table[id]]
         IN IF UniqueSessionName(updated)
            THEN Outcome(updated, None, gear_set_id)
            ELSE Outcome(table, "sqlite3.IntegrityError", None)

\* save_gear_set: update by id, else update the slots of the row of that name, else
\* create
save_gear_set(table, session_uuid, name, slots_json, gear_set_id, new_id) ==
    IF gear_set_id # None /\ get_gear_set(table, session_uuid, gear_set_id) # {}
    THEN update_gear_set(table, session_uuid, gear_set_id, name, slots_json)
    ELSE LET existing_by_name == get_gear_set_by_name(table, session_uuid, name)
         IN IF existing_by_name # {}
            THEN update_gear_set(table, session_uuid, CHOOSE id \in existing_by_name : TRUE,
                                 None, slots_json)
            ELSE create_gear_set(table, session_uuid, name, slots_json, new_id)

\* delete_gear_set: DELETE WHERE id = ? AND session_uuid = ?
delete_gear_set(table, session_uuid, gear_set_id) ==
    LET deleted == get_gear_set(table, session_uuid, gear_set_id)
    IN Outcome([id \in DOMAIN table \ deleted |-> table[id]], None,
               IF deleted # {} THEN gear_set_id ELSE None)

GearSetsInit ==
    /\ OptimizerIdle
    /\ edges = <<>>
    /\ thread_locals = <<>>
    /\ sessions = <<>>
    /\ gear_sets = NoRows
    /\ query = NoQuery
    /\ pc = "database"
    /\ result = Outcome(NoRows, None, None)

GearSetsUnchanged ==
    /\ UNCHANGED <<edges, thread_locals, sessions, pc>>
    /\ OptimizerUnchanged

\* db.create_gear_set(session_uuid, name, slots_json)
CreateGearSet ==
    /\ \E session_uuid \in SessionUuids, name \in GearSetNames, slots_json \in SlotsJsons,
          gear_set_id \in GearSetIds \ DOMAIN gear_sets :
          /\ query' = [op |-> "create_gear_set", session_uuid |-> session_uuid,
                       gear_set_id |-> None, name |-> name, slots_json |-> slots_json]
          /\ result' = create_gear_set(gear_sets, session_uuid, name, slots_json, gear_set_id)
    /\ gear_sets' = result'.table
    /\ GearSetsUnchanged

\* db.update_gear_set(session_uuid, gear_set_id, name, slots_json)
UpdateGearSet ==
    /\ \E session_uuid \in SessionUuids, gear_set_id \in GearSetIds,
          name \in GearSetNames \cup {None}, slots_json \in SlotsJsons \cup {None} :
          /\ query' = [op |-> "update_gear_set", session_uuid |-> session_uuid,
                       gear_set_id |-> gear_set_id, name |-> name, slots_json |-> slots_json]
          /\ result' = update_gear_set(gear_sets, session_uuid, gear_set_id, name, slots_json)
    /\ gear_sets' = result'.table
    /\ GearSetsUnchanged

\* db.save_gear_set(session_uuid, name, slots_json, gear_set_id)
SaveGearSet ==
    /\ \E session_uuid \in SessionUuids, name \in GearSetNames, slots_json \in SlotsJsons,
          gear_set_id \in GearSetIds \cup {None}, new_id \in GearSetIds \ DOMAIN gear_sets :
          /\ query' = [op |-> "save_gear_set", session_uuid |-> session_uuid,
                       gear_set_id |-> gear_set_id, name |-> name, slots_json |-> slots_json]
          /\ result' = save_gear_set(gear_sets, session_uuid, name, slots_json, gear_set_id,
                                     new_id)
    /\ gear_sets' = result'.table
    /\ GearSetsUnchanged

\* db.delete_gear_set(session_uuid, gear_set_id)
DeleteGearSet ==
    /\ \E session_uuid \in SessionUuids, gear_set_id \in GearSetIds :
          /\ query' = [op |-> "delete_gear_set", session_uuid |-> session_uuid,
                       gear_set_id |-> gear_set_id, name |-> None, slots_json |-> None]
          /\ result' = delete_gear_set(gear_sets, session_uuid, gear_set_id)
    /\ gear_sets' = result'.table
    /\ GearSetsUnchanged

GearSetsNext == CreateGearSet \/ UpdateGearSet \/ SaveGearSet \/ DeleteGearSet

SpecGearSets == GearSetsInit /\ [][GearSetsNext]_vars

\* the call of this step is a create_gear_set with a name the session already uses
CreatesUsedName ==
    /\ query'.op = "create_gear_set"
    /\ get_gear_set_by_name(gear_sets, query'.session_uuid, query'.name) # {}

\* the call of this step is an update_gear_set of a gear set of the session that renames
\* it to a name another gear set of the session has
RenamesToUsedName ==
    /\ query'.op = "update_gear_set"
    /\ get_gear_set(gear_sets, query'.session_uuid, query'.gear_set_id) # {}
    /\ query'.name # None
    /\ query'.name # gear_sets[query'.gear_set_id].name
    /\ get_gear_set_by_name(gear_sets, query'.session_uuid, query'.name) # {}

\* C24: after every call of create_gear_set, update_gear_set, save_gear_set and
\* delete_gear_set no session has two gear sets of the same name; create_gear_set with a
\* name the session already uses, and update_gear_set renaming to such a name, raise
\* ValueError and leave the stored gear sets as they were.
C24_NamesUniquePerSession ==
    [][/\ UniqueSessionName(gear_sets')
       /\ ((CreatesUsedName \/ RenamesToUsedName) =>
              (result'.raised = "ValueError" /\ gear_sets' = gear_sets))]_vars

\* the names stay unique, and a refused call leaves the table as it was
C24_UniqueAndUnchanged ==
    [][/\ UniqueSessionName(gear_sets')
       /\ ((CreatesUsedName \/ RenamesToUsedName) =>
              (result'.raised # None /\ gear_sets' = gear_sets))]_vars

\* the same, for names that are not the empty string
C24_NonEmptyNames ==
    [][(query'.name # "") =>
          ((CreatesUsedName \/ RenamesToUsedName) =>
              (result'.raised = "ValueError" /\ gear_sets' = gear_sets))]_vars

-----------------------------------------------------------------------------
(* ui/database: the sessions table and update_config_path. A config is a tree of dicts  *)
(* with string keys and number leaves, which json.dumps and json.loads give back as it  *)
(* was; a path is the list path.split('.') gives.                                       *)

MaxValue == 1          \* largest value written at a path

\* a dict of a config, and a value that is no dict
Dict(items) == [dict |-> items]

Leaf(value) == [leaf |-> value]

IsDict(node) == DOMAIN node = {"dict"}

EmptyDict == Dict([key \in {} |-> Leaf(0)])

\* the character_config column of a session that has none: NULL
NullConfig == [null |-> TRUE]

\* the paths of the calls, split at the dots
ConfigPaths ==
    {<<"ui">>, <<"ui", "theme">>, <<"items", "KIT", "hide">>, <<"items", "KIT", "has">>,
     <<"quality_overrides", "KIT">>, <<"custom_stats", "skate_skiing">>,
     <<"skills", "mining">>, <<"skills", "mining", "level">>}

\* current[part] = node, for a dict current
WithItem(current, part, node) ==
    Dict([key \in DOMAIN current.dict \cup {part} |->
             IF key = part THEN node ELSE current.dict[key]])

\* the navigation and the assignment of update_config_path from the dict current:
\* the dict with the value set, or the exception raised (no part left: IndexError,
\* a value on the way that is no dict: TypeError)
RECURSIVE SetAtPath(_, _, _)
SetAtPath(current, parts, value) ==
    IF Len(parts) = 0 THEN [raised |-> "IndexError"]
    ELSE IF ~IsDict(current) THEN [raised |-> "TypeError"]
    ELSE IF Len(parts) = 1 THEN WithItem(current, parts[1], Leaf(value))
    ELSE LET next == IF parts[1] \in DOMAIN current.dict THEN current.dict[parts[1]]
                     ELSE EmptyDict
             below == SetAtPath(next, Tail(parts), value)
         IN IF IsDict(below) THEN WithItem(current, parts[1], below) ELSE below

\* the config the path names: 'ui' for ui_config, 'character' for character_config
config_type(parts) ==
    IF parts[1] = "ui" THEN "ui"
    ELSE IF Len(parts) >= 3 /\ parts[1] = "items" /\ parts[3] = "hide" THEN "ui"
    ELSE IF parts[1] = "quality_overrides" THEN "ui"
    ELSE IF parts[1] = "custom_stats" THEN "ui"
    ELSE "character"

\* the parts below the config: without the 'ui' prefix
config_parts(parts) == IF parts[1] = "ui" THEN Tail(parts) ELSE parts

\* update_ui_config and update_character_config: UPDATE sessions ... WHERE uuid = ?
update_config(table, session_uuid, column, config) ==
    [uuid \in DOMAIN table |->
        IF uuid = session_uuid
        THEN [character_config |-> IF column = "character" THEN config
                                   ELSE table[uuid].character_config,
              ui_config |-> IF column = "ui" THEN config ELSE table[uuid].ui_config]
        ELSE table[uuid]]

\* update_config_path: the table after the call and the exception raised (None: none)
update_config_path(table, session_uuid, parts, value) ==
    IF session_uuid \notin DOMAIN table THEN [table |-> table, raised |-> None]
    ELSE LET column == config_type(parts)
             stored == IF column = "ui" THEN table[session_uuid].ui_config
                       ELSE table[session_uuid].character_config
             config == IF stored = NullConfig THEN EmptyDict ELSE stored
             written == SetAtPath(config, config_parts(parts), value)
         IN IF IsDict(written)
            THEN [table |-> update_config(table, session_uuid, column, written),
                  raised |-> None]
            ELSE [table |-> table, raised |-> written.raised]

ConfigInit ==
    /\ OptimizerIdle
    /\ edges = <<>>
    /\ thread_locals = <<>>
    /\ sessions = [uuid \in {} |-> [character_config |-> NullConfig, ui_config |-> EmptyDict]]
    /\ gear_sets = <<>>
    /\ query = NoQuery
    /\ pc = "database"
    /\ result = None

ConfigUnchanged ==
    /\ UNCHANGED <<edges, thread_locals, gear_sets, pc>>
    /\ OptimizerUnchanged

\* db.create_session(session_uuid), for a uuid the table does not have
CreateSession ==
    /\ \E session_uuid \in SessionUuids \ DOMAIN sessions :
          /\ sessions' = [uuid \in DOMAIN sessions \cup {session_uuid} |->
                             IF uuid = session_uuid
                             THEN [character_config |-> NullConfig, ui_config |-> EmptyDict]
                             ELSE sessions[uuid]]
          /\ query' = [op |-> "create_session", session_uuid |-> session_uuid]
    /\ result' = None
    /\ ConfigUnchanged

\* db.update_config_path(session_uuid, path, value)
UpdateConfigPath ==
    /\ \E session_uuid \in SessionUuids, parts \in ConfigPaths, value \in 1..MaxValue :
          /\ query' = [op |-> "update_config_path", session_uuid |-> session_uuid,
                       parts |-> parts, value |-> value]
          /\ sessions' = update_config_path(sessions, session_uuid, parts, value).table
          /\ result' = update_config_path(sessions, session_uuid, parts, value).raised
    /\ ConfigUnchanged

ConfigNext == CreateSession \/ UpdateConfigPath

SpecConfig == ConfigInit /\ [][ConfigNext]_vars

\* the value a config holds at a path: a leaf, a dict, or nothing
RECURSIVE ValueAt(_, _)
ValueAt(node, parts) ==
    IF Len(parts) = 0 THEN node
    ELSE IF IsDict(node) /\ parts[1] \in DOMAIN node.dict
         THEN ValueAt(node.dict[parts[1]], Tail(parts))
         ELSE [nothing |-> TRUE]

\* the blob the claim sends a path to
ClaimedTarget(parts) ==
    IF \/ parts[1] \in {"ui", "quality_overrides", "custom_stats"}
       \/ (Len(parts) = 3 /\ parts[1] = "items" /\ parts[3] = "hide")
    THEN "ui_config" ELSE "character_config"

ClaimedParts(parts) == IF parts[1] = "ui" THEN Tail(parts) ELSE parts

OtherBlob(blob) == IF blob = "ui_config" THEN "character_config" ELSE "ui_config"

\* the step is a call of update_config_path
CallsUpdateConfigPath == query'.op = "update_config_path"

\* the frame of a call: the other blob of the session and every other session as before,
\* and nothing changed for a session that does not exist
FrameKept ==
    /\ DOMAIN sessions' = DOMAIN sessions
    /\ \A uuid \in DOMAIN sessions \ {query'.session_uuid} : sessions'[uuid] = sessions[uuid]
    /\ (query'.session_uuid \in DOMAIN sessions =>
           sessions'[query'.session_uuid][OtherBlob(ClaimedTarget(query'.parts))]
               = sessions[query'.session_uuid][OtherBlob(ClaimedTarget(query'.parts))])
    /\ (query'.session_uuid \notin DOMAIN sessions => sessions' = sessions)

\* the value is at the path in the blob the claim names
ValueWritten ==
    query'.session_uuid \in DOMAIN sessions =>
        ValueAt(sessions'[query'.session_uuid][ClaimedTarget(query'.parts)],
                ClaimedParts(query'.parts)) = Leaf(query'.value)

\* C26: update_config_path writes the value at the path inside ui_config when the path
\* starts with 'ui' (the prefix stripped), 'quality_overrides' or 'custom_stats' or is
\* items.<X>.hide, otherwise inside character_config; the session's other blob and all
\* other sessions stay as they were, and a call for a session that does not exist
\* changes nothing.
C26_ConfigPathWritten ==
    [][CallsUpdateConfigPath => (ValueWritten /\ FrameKept)]_vars

\* the frame alone, and the write for the calls that raise nothing
C26_FrameAndWriteUnlessRaised ==
    [][CallsUpdateConfigPath => (FrameKept /\ (result' = None => ValueWritten))]_vars

-----------------------------------------------------------------------------
(* The repair pass of optimize_activity_complete *)

\* the gearset of the greedy pass is complete and does not unlock the activity
NeedsRepair ==
    /\ is_gearset_complete(gearset, tool_slots)
    /\ ~ActivityIsUnlocked(activity, gearset, character)

\* putting item into slot gives a gearset that unlocks the activity and passes the
\* uniqueness and tool-keyword checks
Repairs(slot, item) ==
    /\ is_gearset_valid([gearset EXCEPT ![slot] = item], Order, character, NoActivity, FALSE,
                        tool_slots)
    /\ ActivityIsUnlocked(activity, [gearset EXCEPT ![slot] = item], character)

\* the owned items the pass tries in a slot
Candidates(slot) == Range(SlotItems(AllItems(character), slot))

\* the slots the step changed
ChangedSlots == {slot \in AllSlots : gearset'[slot] # gearset[slot]}

-----------------------------------------------------------------------------
(* calculate_gearset_metrics with the character's bonuses: aggregate_gearset_stats      *)
(* with include_level_bonus and include_collectibles, then get_expected_drop_rate with  *)
(* the character. Percentages are held in ten-thousandths (1.25% is 125); a metric that *)
(* is a quotient is held as <<numerator, denominator>>. Of the stats, work_efficiency,  *)
(* double_rewards, steps_add and bonus_xp_percent are modelled, the others are 0.       *)

MaxLevelBonus == 20    \* levels above the activity's level that give work efficiency

\* 0.0125 per level, in ten-thousandths
LevelBonusPerLevel == 125

ScoredStats == {"work_efficiency", "double_rewards", "steps_add", "bonus_xp_percent"}

NoStats == [n \in ScoredStats |-> 0]

\* min(max(0, skill_level - activity_level), 20) * 0.0125
level_bonus_we(skill_level, activity_level) ==
    Min(Max(0, skill_level - activity_level), MaxLevelBonus) * LevelBonusPerLevel

\* aggregate_gearset_stats(items, skill, location, character, include_level_bonus=True,
\* include_collectibles=True): activity_level is left at its default 1
aggregate_with_bonuses(item_stats, skill_level, collectible_stats) ==
    [n \in ScoredStats |->
        item_stats[n]
            + (IF n = "work_efficiency" THEN level_bonus_we(skill_level, 1) ELSE 0)
            + collectible_stats[n]]

\* the metrics get_expected_drop_rate derives from the stats it ends up with
DropRateMetrics(a, stats) ==
    LET steps_with_efficiency == CeilDiv(10000 * a.base_steps, 10000 + stats.work_efficiency)
        min_steps == CeilDiv(10000 * a.base_steps, 10000 + a.max_efficiency)
        steps_after_min == Max(steps_with_efficiency, min_steps)
        steps_per_single_action == Max(steps_after_min + stats.steps_add, MinSteps)
    IN [expected_steps_per_action |-> steps_per_single_action,
        steps_per_reward_roll |->
            <<10000 * steps_per_single_action, 10000 + stats.double_rewards>>,
        primary_xp_per_step |->
            <<a.base_xp * (10000 + stats.bonus_xp_percent), 10000 * steps_per_single_action>>]

\* get_expected_drop_rate(stats, character=character): the stats it computes with (the
\* stats passed in, plus the level bonus above the activity's level, plus the
\* collectibles' stats) and the metrics
expected_drop_rate_details(a, stats, skill_level, collectible_stats) ==
    LET used == [n \in ScoredStats |->
                    stats[n]
                        + (IF n = "work_efficiency"
                           THEN level_bonus_we(skill_level, a.activity_level) ELSE 0)
                        + collectible_stats[n]]
    IN [stats |-> used, metrics |-> DropRateMetrics(a, used)]

\* calculate_gearset_metrics
gearset_metrics(q) ==
    expected_drop_rate_details(q.activity,
        aggregate_with_bonuses(q.item_stats, q.skill_level, q.collectible_stats),
        q.skill_level, q.collectible_stats)

\* the activities, the summed stats of a gearset's items, the character's level in the
\* activity's skill and the summed stats of the collectibles
ScoreInputs ==
    [activity : [base_steps : {20, 40}, base_xp : {10}, max_efficiency : {5000, 20000},
                 activity_level : {1, 10}],
     item_stats : {NoStats,
                   [work_efficiency |-> 1000, double_rewards |-> 500, steps_add |-> 0 - 1,
                    bonus_xp_percent |-> 200]},
     skill_level : {1, 10, 14, 40},
     collectible_stats : {NoStats,
                          [NoStats EXCEPT !["work_efficiency"] = 300],
                          [NoStats EXCEPT !["double_rewards"] = 100],
                          [NoStats EXCEPT !["steps_add"] = 0 - 1],
                          [NoStats EXCEPT !["bonus_xp_percent"] = 500]}]

ScoreInit ==
    /\ OptimizerIdle
    /\ edges = <<>>
    /\ thread_locals = <<>>
    /\ sessions = <<>>
    /\ gear_sets = <<>>
    /\ query = NoQuery
    /\ pc = "score"
    /\ result = None

\* calculate_gearset_metrics(gearset_dict, activity, character)
CalculateGearsetMetrics ==
    /\ pc = "score"
    /\ \E q \in ScoreInputs :
          /\ query' = q
          /\ result' = gearset_metrics(q)
    /\ pc' = "scored"
    /\ UNCHANGED <<edges, thread_locals, sessions, gear_sets>>
    /\ OptimizerUnchanged

ScoreNext == CalculateGearsetMetrics

SpecScore == ScoreInit /\ [][ScoreNext]_vars

\* the stats of the items with the level bonus and the collectibles' stats added once
CountedOnce(q) ==
    [n \in ScoredStats |->
        q.item_stats[n]
            + (IF n = "work_efficiency"
               THEN level_bonus_we(q.skill_level, q.activity.activity_level) ELSE 0)
            + q.collectible_stats[n]]

\* two quotients are the same number
SameQuotient(a, b) == a[1] * b[2] = b[1] * a[2]

\* C28: the stats from which calculate_gearset_metrics computes steps per action, steps
\* per reward roll and XP per step hold the character's level-based work-efficiency
\* bonus once and the collectibles' stats once, and the three metrics are those of such
\* stats.
C28_BonusesCountedOnce ==
    pc = "scored" =>
        /\ result.stats = CountedOnce(query)
        /\ result.metrics.expected_steps_per_action
              = DropRateMetrics(query.activity, CountedOnce(query)).expected_steps_per_action
        /\ SameQuotient(result.metrics.steps_per_reward_roll,
                        DropRateMetrics(query.activity,
                                        CountedOnce(query)).steps_per_reward_roll)
        /\ SameQuotient(result.metrics.primary_xp_per_step,
                        DropRateMetrics(query.activity,
                                        CountedOnce(query)).primary_xp_per_step)

\* C28 for a character at level 1 without collectibles
C28_NothingToCount ==
    (pc = "scored" /\ query.skill_level = 1 /\ query.collectible_stats = NoStats) =>
        result.stats = CountedOnce(query)

-----------------------------------------------------------------------------
(* The two validators: gearset_utils.is_gearset_valid and                               *)
(* activity_optimizer.is_gearset_valid on one gearset, character and activity.          *)

\* tools = [gearset_dict.get(f'tool{i}') for i in range(6) if f'tool{i}' in gearset_dict]
ToolsOf(g, n) == [i \in 1..n |-> g[ToolSlotNames[i]]]

\* gearset_utils.is_gearset_valid(gearset_dict, character, activity, None,
\* check_requirements) for a gearset dict with the slots of order, n of them tool slots
gearset_utils_is_gearset_valid(g, order, c, a, check_requirements, n) ==
    /\ validate_uuid_uniqueness(Values(g, order), c)
    /\ validate_tool_keywords(ToolsOf(g, n))
    /\ (a # NoActivity /\ check_requirements) => ActivityIsUnlocked(a, g, c)

\* the gear of a character in every gear slot, and none
FullGear ==
    [sl \in AllSlots |->
        CASE sl = "head" -> "H1" [] sl = "cape" -> "CP" [] sl = "back" -> "BK"
          [] sl = "chest" -> "CH" [] sl = "primary" -> "PR" [] sl = "secondary" -> "SE"
          [] sl = "hands" -> "HA" [] sl = "legs" -> "LE" [] sl = "neck" -> "NE"
          [] sl = "feet" -> "FE" [] sl = "ring1" -> "R1G" [] sl = "ring2" -> "R2"
          [] OTHER -> None]

\* gearsets with every gear slot filled or none, the head, the rings and two tool slots
\* varied, a slot left empty or not
BothGearsets ==
    {[base EXCEPT !["head"] = t[1], !["ring1"] = t[2], !["ring2"] = t[3],
                  !["tool0"] = t[4], !["tool1"] = t[5]] :
        base \in {EmptyGearset, FullGear},
        t \in {None, "H1", "H2"} \X {None, "R1G", "R2"} \X {"R1G", "R2"}
              \X {None, "T1", "T3", "T5"} \X {None, "T2", "T5"}}

BothCharacters ==
    {[gear |-> [NoItems EXCEPT !["R1G"] = 1],
      inventory |-> [i \in Items |-> IF i = "R1G" THEN q ELSE IF i = "T4" THEN 0 ELSE 1],
      bank |-> NoItems,
      skill_level |-> 2, reputation |-> 1, achievement_points |-> 1] : q \in 0..1}

ValidatorsInit ==
    /\ STATS_CACHE = EmptyCache
    /\ edges = <<>>
    /\ thread_locals = <<>>
    /\ sessions = <<>>
    /\ gear_sets = <<>>
    /\ character \in BothCharacters
    /\ gearset \in BothGearsets
    /\ activity \in Activities \cup {NoActivity}
    /\ query \in {[check_requirements |-> b] : b \in BOOLEAN}
    /\ pc = "validate"
    /\ result = None
    /\ alg = None
    /\ slot_idx = 0
    /\ current_keyword_counts = NoKeywords
    /\ needed_keywords = {}
    /\ best_item = None
    /\ current_value = 0
    /\ best_swap = <<>>
    /\ iteration = 0
    /\ improved = FALSE
    /\ max_iterations = 0
    /\ sorting_priority = <<>>
    /\ tool_slots = 2

\* the caller asks both validators about the gearset
ValidateWithBoth ==
    /\ pc = "validate"
    /\ result' =
          [gearset_utils |->
               gearset_utils_is_gearset_valid(gearset, SlotOrder(GearSlots, tool_slots),
                   character, activity, query.check_requirements, tool_slots),
           activity_optimizer |->
               is_gearset_valid(gearset, SlotOrder(GearSlots, tool_slots), character,
                   activity, query.check_requirements, tool_slots)]
    /\ pc' = "compared"
    /\ UNCHANGED <<edges, thread_locals, sessions, gear_sets, query>>
    /\ OptimizerUnchanged

ValidatorsNext == ValidateWithBoth

SpecValidators == ValidatorsInit /\ [][ValidatorsNext]_vars

\* C29: gearset_utils.is_gearset_valid and activity_optimizer.is_gearset_valid give the
\* same verdict on every gearset, character and activity under the same
\* check_requirements flag, gearsets with empty slots and tools that repeat a keyword in
\* their keyword list included.
C29_ValidatorsAgree ==
    pc = "compared" => result.gearset_utils = result.activity_optimizer

\* a tool of the gearset lists one keyword twice, up to case
RepeatsKeyword(g) ==
    \E sl \in Range(ToolSlotNames) :
        /\ g[sl] # None
        /\ \E j, k \in 1..Len(ItemKeywords(g[sl])) :
              /\ j # k
              /\ Lower(ItemKeywords(g[sl])[j]) = Lower(ItemKeywords(g[sl])[k])
              /\ Lower(ItemKeywords(g[sl])[j]) \notin excluded_keywords

\* the validators agree on complete gearsets whose tools repeat no keyword
C29_AgreeOnCompleteGearsets ==
    (pc = "compared" /\ ~RepeatsKeyword(gearset)
        /\ (is_gearset_complete(gearset, tool_slots) \/ activity = NoActivity
            \/ ~query.check_requirements)) =>
        result.gearset_utils = result.activity_optimizer

-----------------------------------------------------------------------------
(* create_multi_level_comparator under every choice of its flags, and the while loop    *)
(* of optimize_gearset_greedy_local_search run with the comparison it builds.           *)

MaxScore == 1          \* largest score in a score tuple

\* a comparison that calls equal tuples better
compare_or_equal(primary_minimize, secondary_minimize, tertiary_minimize, new_scores, old_scores) ==
    \A k \in 1..3 :
        (k <= Len(new_scores) /\ k <= Len(old_scores)) => new_scores[k] = old_scores[k]

\* compare(new_scores, old_scores) of create_multi_level_comparator(primary_minimize,
\* secondary_minimize, tertiary_minimize)
create_multi_level_comparator(primary_minimize, secondary_minimize, tertiary_minimize, new_scores, old_scores) ==
    IF primary_minimize /\ new_scores[1] < old_scores[1] THEN TRUE
    ELSE IF primary_minimize /\ new_scores[1] > old_scores[1] THEN FALSE
    ELSE IF ~primary_minimize /\ new_scores[1] > old_scores[1] THEN TRUE
    ELSE IF ~primary_minimize /\ new_scores[1] < old_scores[1] THEN FALSE
    ELSE IF /\ Len(new_scores) > 1 /\ Len(old_scores) > 1
            /\ secondary_minimize /\ new_scores[2] < old_scores[2] THEN TRUE
    ELSE IF /\ Len(new_scores) > 1 /\ Len(old_scores) > 1
            /\ secondary_minimize /\ new_scores[2] > old_scores[2] THEN FALSE
    ELSE IF /\ Len(new_scores) > 1 /\ Len(old_scores) > 1
            /\ ~secondary_minimize /\ new_scores[2] > old_scores[2] THEN TRUE
    ELSE IF /\ Len(new_scores) > 1 /\ Len(old_scores) > 1
            /\ ~secondary_minimize /\ new_scores[2] < old_scores[2] THEN FALSE
    ELSE IF /\ Len(new_scores) > 2 /\ Len(old_scores) > 2
            /\ tertiary_minimize /\ new_scores[3] < old_scores[3] THEN TRUE
    ELSE IF /\ Len(new_scores) > 2 /\ Len(old_scores) > 2
            /\ tertiary_minimize /\ new_scores[3] > old_scores[3] THEN FALSE
    ELSE IF /\ Len(new_scores) > 2 /\ Len(old_scores) > 2
            /\ ~tertiary_minimize /\ new_scores[3] > old_scores[3] THEN TRUE
    ELSE FALSE

\* is_better of the running search: the comparison built from the flags of the query
is_better(new_scores, old_scores) ==
    create_multi_level_comparator(query.primary_minimize, query.secondary_minimize,
                                  query.tertiary_minimize, new_scores, old_scores)

\* score tuples of one, two and three levels
ScoreTuples == UNION {[1..n -> 0..MaxScore] : n \in 1..3}

\* all_items of the search: two slots with two items each
SearchSlots == <<"head", "cape">>
SearchItems == [head |-> <<"H1", "H2">>, cape |-> <<"CP", None>>]
SearchGearsets == {[head |-> h, cape |-> c] : h \in Range(SearchItems.head),
                                               c \in Range(SearchItems.cape)}

\* the score functions tried: every gearset scored by a tuple of two levels
ScoreFunctions == [SearchGearsets -> [1..2 -> 0..MaxScore]]

ComparatorFlags ==
    [primary_minimize : BOOLEAN, secondary_minimize : BOOLEAN, tertiary_minimize : BOOLEAN]

ComparatorInit ==
    /\ OptimizerIdle
    /\ edges = <<>>
    /\ thread_locals = <<>>
    /\ sessions = <<>>
    /\ gear_sets = <<>>
    /\ \E flags \in ComparatorFlags :
          \/ /\ pc = "compare"
             /\ \E a, b, c \in ScoreTuples :
                   query = [primary_minimize |-> flags.primary_minimize,
                            secondary_minimize |-> flags.secondary_minimize,
                            tertiary_minimize |-> flags.tertiary_minimize,
                            a |-> a, b |-> b, c |-> c]
             /\ result = None
          \/ /\ pc = "search"
             /\ \E scores \in ScoreFunctions :
                   query = [primary_minimize |-> flags.primary_minimize,
                            secondary_minimize |-> flags.secondary_minimize,
                            tertiary_minimize |-> flags.tertiary_minimize,
                            scores |-> scores,
                            current_gearset |-> [head |-> "H1", cape |-> "CP"],
                            iteration |-> 0, improved |-> TRUE]
             /\ result = [held |-> <<[head |-> "H1", cape |-> "CP"]>>]

\* the caller compares the tuples a, b and c with one another
CompareScores ==
    /\ pc = "compare"
    /\ result' = [aa |-> is_better(query.a, query.a),
                  ab |-> is_better(query.a, query.b),
                  ba |-> is_better(query.b, query.a),
                  bc |-> is_better(query.b, query.c),
                  ac |-> is_better(query.a, query.c)]
    /\ pc' = "compared"
    /\ UNCHANGED <<edges, thread_locals, sessions, gear_sets, query>>
    /\ OptimizerUnchanged

\* the swaps one pass tries from slot s, item i on; the first better one is taken
RECURSIVE SearchScan(_, _, _)
SearchScan(current_gearset, s, i) ==
    IF s > Len(SearchSlots) THEN current_gearset
    ELSE IF i > Len(SearchItems[SearchSlots[s]]) THEN SearchScan(current_gearset, s + 1, 1)
    ELSE IF SearchItems[SearchSlots[s]][i] = current_gearset[SearchSlots[s]]
         THEN SearchScan(current_gearset, s, i + 1)
    ELSE IF is_better(
                query.scores[[n \in DOMAIN current_gearset |->
                                 IF n = SearchSlots[s] THEN SearchItems[SearchSlots[s]][i]
                                 ELSE current_gearset[n]]],
                query.scores[current_gearset])
         THEN [n \in DOMAIN current_gearset |->
                  IF n = SearchSlots[s] THEN SearchItems[SearchSlots[s]][i]
                  ELSE current_gearset[n]]
    ELSE SearchScan(current_gearset, s, i + 1)

\* optimize_gearset_greedy_local_search: the test of the while loop and one pass of it
LocalSearchPass ==
    /\ pc = "search"
    /\ IF query.improved /\ query.iteration < MaxIter
       THEN \E next \in {SearchScan(query.current_gearset, 1, 1)} :
               /\ query' = [n \in DOMAIN query |->
                               IF n = "current_gearset" THEN next
                               ELSE IF n = "iteration" THEN query.iteration + 1
                               ELSE IF n = "improved" THEN next # query.current_gearset
                               ELSE query[n]]
               /\ result' = [held |-> IF next # query.current_gearset
                                      THEN Append(result.held, next) ELSE result.held]
               /\ pc' = "search"
       ELSE /\ pc' = "searched"
            /\ UNCHANGED <<query, result>>
    /\ UNCHANGED <<edges, thread_locals, sessions, gear_sets>>
    /\ OptimizerUnchanged

ComparatorNext == CompareScores \/ LocalSearchPass

SpecComparator == ComparatorInit /\ [][ComparatorNext]_vars

\* C30: under every choice of the minimize flags the comparison is a strict order on
\* score tuples (no tuple is better than itself, two tuples are never each better than
\* the other, and better is transitive), and a search that takes only swaps the
\* comparison calls better never holds the same gearset twice.
C30_StrictOrderNoReturn ==
    /\ pc = "compared" =>
          /\ ~result.aa
          /\ ~(result.ab /\ result.ba)
          /\ (result.ab /\ result.bc) => result.ac
    /\ pc \in {"search", "searched"} =>
          \A i, j \in 1..Len(result.held) : i # j => result.held[i] # result.held[j]

\* a chain of three tuples under maximized primary and minimized secondary score, a and
\* b told apart by the third level only
C30_Witness ==
    /\ pc = "compared"
    /\ ~query.primary_minimize /\ query.secondary_minimize
    /\ result.ab /\ result.bc /\ result.ac
    /\ Len(query.a) = 3 /\ Len(query.b) = 3
    /\ query.a[1] = query.b[1] /\ query.a[2] = query.b[2] /\ query.a[3] # query.b[3]

\* a search that ended after two swaps, the second decided by the secondary score
C30_SearchHeldThree ==
    /\ pc = "searched"
    /\ Len(result.held) = 3
    /\ query.scores[result.held[2]][1] = query.scores[result.held[3]][1]

\* with secondary_minimize=False and tertiary_minimize=True the comparison is the one
\* the optimizer runs with
C30_SameAsOptimizerCompare ==
    pc = "compared" =>
        \A primary_minimize \in BOOLEAN :
            compare(query.a, query.b, primary_minimize)
                = create_multi_level_comparator(primary_minimize, FALSE, TRUE,
                                                query.a, query.b)

=============================================================================
